---------------------------- MODULE Spec2Model ----------------------------
(***************************************************************************)
(* The normalization and comparison engine of the multi-tool scanner:      *)
(* severity tables and category classifiers of the four parsers, the       *)
(* fingerprint of the normalizer and the overlap analysis of the           *)
(* comparison analyzer.                                                    *)
(*                                                                         *)
(* JavaScript strings are sequences of one-character strings, so that      *)
(* join, includes, toLowerCase and toUpperCase are computed as the         *)
(* runtime computes them.  A JavaScript value is a record with a type tag  *)
(* t, a number n and a string s.                                           *)
(***************************************************************************)
EXTENDS Integers, Sequences, FiniteSets, TLC

VARIABLES
    pc,        \* position of the run: "input" before the call, "done" after it
    alerts,    \* Alert collection of one repository, in insertion order
    report,    \* what compareRepository returned
    fpIn,      \* the two findings handed to createFingerprint
    fpOut,     \* their fingerprints
    sevIn,     \* tool, native severity token and rule id handed to normalizeSeverity
    sevOut,    \* what normalizeSeverity returned
    catIn,     \* classifier, rule id, message and existing category
    catOut,    \* what the classifier returned, and what normalizeAlert made of it
    effIn,     \* the toolResults handed to findOverlap and calculateEffectiveness
    effOut,    \* the overlap data and the effectiveness they returned
    scanTool,  \* the tool whose scanner and parser run
    scanEnvs,  \* what each scan met outside the program
    scanOut,   \* the records scanMultiple has collected
    parseOut,  \* what parseMultiple returned
    repositories, \* Repository collection, in insertion order
    analyses,  \* Analysis collection, in insertion order
    storeIn,   \* the normalized results handed to storeMultiple
    storeOut,  \* the results storeMultiple has pushed so far
    storeAt,   \* how many of the normalized results storeMultiple has taken
    comparedOn, \* the Alert collection as the last comparison found it
    calls,     \* the getOrCreateRepository calls in flight, by caller
    props,     \* sonar-project.properties before the last scan and now
    mainRun    \* the run of main: target repositories, storage, parsed results

vars == <<pc, alerts, report, fpIn, fpOut, sevIn, sevOut, catIn, catOut, effIn, effOut,
          scanTool, scanEnvs, scanOut, parseOut,
          repositories, analyses, storeIn, storeOut, storeAt, comparedOn,
                   calls, props, mainRun>>

-----------------------------------------------------------------------------
(* JavaScript values *)

Undef == [t |-> "undefined", n |-> 0, s |-> <<>>]
Null == [t |-> "null", n |-> 0, s |-> <<>>]
Num(k) == [t |-> "number", n |-> k, s |-> <<>>]
Str(chars) == [t |-> "string", n |-> 0, s |-> chars]
\* a function or object value, such as one inherited from Object.prototype
Obj(tag) == [t |-> "object", n |-> 0, s |-> tag]

IsNullish(v) == v.t \in {"undefined", "null"}
IsString(v) == v.t = "string"

\* ToBoolean
Truthy(v) ==
    CASE v.t = "string" -> v.s # <<>>
      [] v.t = "number" -> v.n # 0
      [] v.t = "object" -> TRUE
      [] OTHER -> FALSE

\* a || b
OrElse(a, b) == IF Truthy(a) THEN a ELSE b

\* the outcome of a call: a value, or a thrown TypeError
Returned(v) == [threw |-> FALSE, val |-> v]
Threw == [threw |-> TRUE, val |-> Undef]

-----------------------------------------------------------------------------
(* Strings *)

UpperChars == <<"A","B","C","D","E","F","G","H","I","J","K","L","M",
                "N","O","P","Q","R","S","T","U","V","W","X","Y","Z">>
LowerChars == <<"a","b","c","d","e","f","g","h","i","j","k","l","m",
                "n","o","p","q","r","s","t","u","v","w","x","y","z">>

IndexIn(c, chars) == CHOOSE i \in 1..Len(chars) : chars[i] = c
IsIn(c, chars) == \E i \in 1..Len(chars) : chars[i] = c

LowerChar(c) == IF IsIn(c, UpperChars) THEN LowerChars[IndexIn(c, UpperChars)] ELSE c
UpperChar(c) == IF IsIn(c, LowerChars) THEN UpperChars[IndexIn(c, LowerChars)] ELSE c

\* String.prototype.toLowerCase / toUpperCase
toLowerCase(str) == [i \in 1..Len(str) |-> LowerChar(str[i])]
toUpperCase(str) == [i \in 1..Len(str) |-> UpperChar(str[i])]

\* String.prototype.includes
includes(str, key) ==
    \E i \in 0..(Len(str) - Len(key)) : SubSeq(str, i + 1, i + Len(key)) = key

Digits == <<"0","1","2","3","4","5","6","7","8","9">>

\* Number.prototype.toString for a natural number
RECURSIVE NumToString(_)
NumToString(k) ==
    IF k < 10 THEN <<Digits[k + 1]>>
    ELSE NumToString(k \div 10) \o <<Digits[(k % 10) + 1]>>

-----------------------------------------------------------------------------
(* String literals of the source *)

s_XSS == <<"X", "S", "S">>
s_SQL_Injection == <<"S", "Q", "L", " ", "I", "n", "j", "e", "c", "t", "i", "o", "n">>
s_Command_Injection == <<"C", "o", "m", "m", "a", "n", "d", " ", "I", "n", "j", "e", "c", "t", "i", "o", "n">>
s_Path_Traversal == <<"P", "a", "t", "h", " ", "T", "r", "a", "v", "e", "r", "s", "a", "l">>
s_SSRF == <<"S", "S", "R", "F">>
s_CSRF == <<"C", "S", "R", "F">>
s_Hardcoded_Credentials == <<"H", "a", "r", "d", "c", "o", "d", "e", "d", " ", "C", "r", "e", "d", "e", "n", "t", "i", "a", "l", "s">>
s_Insecure_Deserialization == <<"I", "n", "s", "e", "c", "u", "r", "e", " ", "D", "e", "s", "e", "r", "i", "a", "l", "i", "z", "a", "t", "i", "o", "n">>
s_Cryptography == <<"C", "r", "y", "p", "t", "o", "g", "r", "a", "p", "h", "y">>
s_Auth_Flaws == <<"A", "u", "t", "h", " ", "F", "l", "a", "w", "s">>
s_Session_Management == <<"S", "e", "s", "s", "i", "o", "n", " ", "M", "a", "n", "a", "g", "e", "m", "e", "n", "t">>
s_Open_Redirect == <<"O", "p", "e", "n", " ", "R", "e", "d", "i", "r", "e", "c", "t">>
s_ReDoS == <<"R", "e", "D", "o", "S">>
s_Other == <<"O", "t", "h", "e", "r">>
s_Code_Injection == <<"C", "o", "d", "e", " ", "I", "n", "j", "e", "c", "t", "i", "o", "n">>
s_XXE == <<"X", "X", "E">>
s_LDAP_Injection == <<"L", "D", "A", "P", " ", "I", "n", "j", "e", "c", "t", "i", "o", "n">>
s_Timing_Attack == <<"T", "i", "m", "i", "n", "g", " ", "A", "t", "t", "a", "c", "k">>
s_Injection == <<"I", "n", "j", "e", "c", "t", "i", "o", "n">>
s_xss == <<"x", "s", "s">>
s_sql_injection == <<"s", "q", "l", "-", "i", "n", "j", "e", "c", "t", "i", "o", "n">>
s_sqli == <<"s", "q", "l", "i">>
s_command_injection == <<"c", "o", "m", "m", "a", "n", "d", "-", "i", "n", "j", "e", "c", "t", "i", "o", "n">>
s_path_traversal == <<"p", "a", "t", "h", "-", "t", "r", "a", "v", "e", "r", "s", "a", "l">>
s_ssrf == <<"s", "s", "r", "f">>
s_csrf == <<"c", "s", "r", "f">>
s_hardcoded == <<"h", "a", "r", "d", "c", "o", "d", "e", "d">>
s_deserialization == <<"d", "e", "s", "e", "r", "i", "a", "l", "i", "z", "a", "t", "i", "o", "n">>
s_auth == <<"a", "u", "t", "h">>
s_crypto == <<"c", "r", "y", "p", "t", "o">>
s_regex == <<"r", "e", "g", "e", "x">>
s_sql == <<"s", "q", "l">>
s_injection == <<"i", "n", "j", "e", "c", "t", "i", "o", "n">>
s_command == <<"c", "o", "m", "m", "a", "n", "d">>
s_path == <<"p", "a", "t", "h">>
s_traversal == <<"t", "r", "a", "v", "e", "r", "s", "a", "l">>
s_password == <<"p", "a", "s", "s", "w", "o", "r", "d">>
s_secret == <<"s", "e", "c", "r", "e", "t">>
s_session == <<"s", "e", "s", "s", "i", "o", "n">>
s_redirect == <<"r", "e", "d", "i", "r", "e", "c", "t">>
s_xxe == <<"x", "x", "e">>
s_ldap == <<"l", "d", "a", "p">>
s_eval == <<"e", "v", "a", "l">>
s_child_process == <<"c", "h", "i", "l", "d", "-", "p", "r", "o", "c", "e", "s", "s">>
s_timing == <<"t", "i", "m", "i", "n", "g">>
s_unsanitized == <<"u", "n", "s", "a", "n", "i", "t", "i", "z", "e", "d">>
s_object_injection == <<"o", "b", "j", "e", "c", "t", "-", "i", "n", "j", "e", "c", "t", "i", "o", "n">>
s_require == <<"r", "e", "q", "u", "i", "r", "e">>
s_ERROR == <<"E", "R", "R", "O", "R">>
s_WARNING == <<"W", "A", "R", "N", "I", "N", "G">>
s_INFO == <<"I", "N", "F", "O">>
s_error == <<"e", "r", "r", "o", "r">>
s_warning == <<"w", "a", "r", "n", "i", "n", "g">>
s_note == <<"n", "o", "t", "e">>
s_high == <<"h", "i", "g", "h">>
s_medium == <<"m", "e", "d", "i", "u", "m">>
s_low == <<"l", "o", "w">>
s_BLOCKER == <<"B", "L", "O", "C", "K", "E", "R">>
s_CRITICAL == <<"C", "R", "I", "T", "I", "C", "A", "L">>
s_MAJOR == <<"M", "A", "J", "O", "R">>
s_MINOR == <<"M", "I", "N", "O", "R">>
s_constructor == <<"c", "o", "n", "s", "t", "r", "u", "c", "t", "o", "r">>
s___proto__ == <<"_", "_", "p", "r", "o", "t", "o", "_", "_">>
s_security_detect_eval_with_expression == <<"s", "e", "c", "u", "r", "i", "t", "y", "/", "d", "e", "t", "e", "c", "t", "-", "e", "v", "a", "l", "-", "w", "i", "t", "h", "-", "e", "x", "p", "r", "e", "s", "s", "i", "o", "n">>
s_security_detect_unsafe_regex == <<"s", "e", "c", "u", "r", "i", "t", "y", "/", "d", "e", "t", "e", "c", "t", "-", "u", "n", "s", "a", "f", "e", "-", "r", "e", "g", "e", "x">>
s_security_detect_buffer_noassert == <<"s", "e", "c", "u", "r", "i", "t", "y", "/", "d", "e", "t", "e", "c", "t", "-", "b", "u", "f", "f", "e", "r", "-", "n", "o", "a", "s", "s", "e", "r", "t">>
s_security_detect_pseudoRandomBytes == <<"s", "e", "c", "u", "r", "i", "t", "y", "/", "d", "e", "t", "e", "c", "t", "-", "p", "s", "e", "u", "d", "o", "R", "a", "n", "d", "o", "m", "B", "y", "t", "e", "s">>
s_no_unsanitized_method == <<"n", "o", "-", "u", "n", "s", "a", "n", "i", "t", "i", "z", "e", "d", "/", "m", "e", "t", "h", "o", "d">>
s_no_unsanitized_property == <<"n", "o", "-", "u", "n", "s", "a", "n", "i", "t", "i", "z", "e", "d", "/", "p", "r", "o", "p", "e", "r", "t", "y">>
s_cc == <<":", ":">>
s__object_Object_ == <<"[", "o", "b", "j", "e", "c", "t", " ", "O", "b", "j", "e", "c", "t", "]">>
s_critical == <<"c", "r", "i", "t", "i", "c", "a", "l">>
s_toString == <<"t", "o", "S", "t", "r", "i", "n", "g">>
s_valueOf == <<"v", "a", "l", "u", "e", "O", "f">>
s_hasOwnProperty == <<"h", "a", "s", "O", "w", "n", "P", "r", "o", "p", "e", "r", "t", "y">>
s_undefined == <<"u", "n", "d", "e", "f", "i", "n", "e", "d">>

s_unknown == <<"u", "n", "k", "n", "o", "w", "n">>
s_Security_issue_detected == <<"S", "e", "c", "u", "r", "i", "t", "y", " ", "i", "s", "s", "u", "e", " ", "d", "e", "t", "e", "c", "t", "e", "d">>
s_MEDIUM == <<"M", "E", "D", "I", "U", "M">>
s_HIGH == <<"H", "I", "G", "H">>
s_VULNERABILITY == <<"V", "U", "L", "N", "E", "R", "A", "B", "I", "L", "I", "T", "Y">>
s_slash == <<"/">>
s_Not_authenticated == <<"N", "o", "t", " ", "a", "u", "t", "h", "e", "n", "t", "i", "c", "a", "t", "e", "d">>
s_security_ == <<"s", "e", "c", "u", "r", "i", "t", "y", "/">>
s_no_unsanitized_ == <<"n", "o", "-", "u", "n", "s", "a", "n", "i", "t", "i", "z", "e", "d", "/">>
s_Repository_not_found == <<"R", "e", "p", "o", "s", "i", "t", "o", "r", "y", " ", "n", "o", "t", " ", "f", "o", "u", "n", "d", ":", " ">>
s_Snyk_not_authenticated == <<"S", "n", "y", "k", " ", "n", "o", "t", " ", "a", "u", "t", "h", "e", "n", "t", "i", "c", "a", "t", "e", "d", ".", " ", "R", "u", "n", ":", " ", "s", "n", "y", "k", " ", "a", "u", "t", "h">>
s_SONAR_TOKEN_not_set == <<"S", "O", "N", "A", "R", "_", "T", "O", "K", "E", "N", " ", "n", "o", "t", " ", "s", "e", "t", " ", "i", "n", " ", ".", "e", "n", "v", ".", " ", "G", "e", "t", " ", "t", "o", "k", "e", "n", " ", "f", "r", "o", "m", ":", " ", "h", "t", "t", "p", "s", ":", "/", "/", "s", "o", "n", "a", "r", "c", "l", "o", "u", "d", ".", "i", "o", "/", "a", "c", "c", "o", "u", "n", "t", "/", "s", "e", "c", "u", "r", "i", "t", "y">>

\* texts that occur only in the inputs the model draws
s_Error == <<"E", "r", "r", "o", "r">>
s_Warning == <<"W", "a", "r", "n", "i", "n", "g">>
s_bogus == <<"b", "o", "g", "u", "s">>
s_a == <<"a">>
s_b == <<"b">>
s_r == <<"r">>
s_m == <<"m">>
s_acc == <<"a", ":", ":">>
s_xs == <<"x", "s">>
s_s == <<"s">>
s_Xss == <<"X", "s", "s">>
s_sqlxss == <<"s", "q", "l", "x", "s", "s">>
s_r_eval == <<"r", "-", "e", "v", "a", "l">>
s_a_timing == <<"a", "-", "t", "i", "m", "i", "n", "g">>
s_ccb == <<":", ":", "b">>
s__r == <<"/", "r">>
s__r_a == <<"/", "r", "/", "a">>
s_x_r_a == <<"x", "/", "r", "/", "a">>
s_pca == <<"p", ":", "a">>
s_Command_failed == <<"C", "o", "m", "m", "a", "n", "d", " ", "f", "a", "i", "l", "e", "d">>
s_Unexpected_token == <<"U", "n", "e", "x", "p", "e", "c", "t", "e", "d", " ", "t", "o", "k", "e", "n">>
s_CODE_SMELL == <<"C", "O", "D", "E", "_", "S", "M", "E", "L", "L">>
s_semi == <<"s", "e", "m", "i">>
s_TypeError == <<"T", "y", "p", "e", "E", "r", "r", "o", "r">>
s_db == <<"d", "b">>

-----------------------------------------------------------------------------
(* parsers/normalizer.js *)

\* Array.prototype.join turns undefined and null into the empty string and
\* every other element into its string
JoinElement(v) ==
    CASE IsNullish(v) -> <<>>
      [] v.t = "number" -> NumToString(v.n)
      [] v.t = "string" -> v.s
      [] OTHER -> s__object_Object_

RECURSIVE join(_, _)
join(components, sep) ==
    IF Len(components) = 0 THEN <<>>
    ELSE IF Len(components) = 1 THEN JoinElement(components[1])
    ELSE JoinElement(components[1]) \o sep \o join(Tail(components), sep)

FingerprintComponents(alert) ==
    <<alert.rule_id, alert.location.path, alert.location.start_line, alert.category>>

createFingerprint(alert) == join(FingerprintComponents(alert), s_cc)

-----------------------------------------------------------------------------
(* comparison/analyzer.js *)

\* the if-chain of extractCategory, in its order
AnalyzerKeywords ==
    << <<s_xss, s_XSS>>, <<s_sql, s_SQL_Injection>>, <<s_command, s_Command_Injection>>,
       <<s_path, s_Path_Traversal>>, <<s_csrf, s_CSRF>>, <<s_ssrf, s_SSRF>> >>

\* the category of the first pair of table whose keyword text contains
RECURSIVE FirstKeyword(_, _)
FirstKeyword(table, text) ==
    IF Len(table) = 0 THEN s_Other
    ELSE IF includes(text, table[1][1]) THEN table[1][2]
    ELSE FirstKeyword(Tail(table), text)

\* alert.rule_id?.toLowerCase() || '' : a rule id that is neither absent nor a
\* string has no toLowerCase, and the call throws
AnalyzerExtractCategory(alert) ==
    IF Truthy(alert.category) THEN Returned(alert.category)
    ELSE IF IsNullish(alert.rule_id) THEN Returned(Str(FirstKeyword(AnalyzerKeywords, <<>>)))
    ELSE IF ~IsString(alert.rule_id) THEN Threw
    ELSE Returned(Str(FirstKeyword(AnalyzerKeywords, toLowerCase(alert.rule_id.s))))

\* the body of the inner forEach of findOverlap: fingerprints is the list of
\* groups in key insertion order
GroupIndex(fingerprints, fp) ==
    {i \in 1..Len(fingerprints) : fingerprints[i].fingerprint = fp}

\* the push placed in an else branch, so that the tool that creates a group is
\* not recorded
PushDetectedElse(fingerprints, toolName, alert) ==
    LET fp == createFingerprint(alert)
        at == GroupIndex(fingerprints, fp)
    IN  IF at = {}
        THEN Append(fingerprints, [fingerprint |-> fp, alert |-> alert, detectedBy |-> <<>>])
        ELSE LET i == CHOOSE j \in at : TRUE
             IN  [fingerprints EXCEPT ![i].detectedBy = Append(@, toolName)]

PushDetected(fingerprints, toolName, alert) ==
    LET fp == createFingerprint(alert)
        at == GroupIndex(fingerprints, fp)
        created == IF at = {}
                   THEN Append(fingerprints,
                               [fingerprint |-> fp, alert |-> alert, detectedBy |-> <<>>])
                   ELSE fingerprints
        i == CHOOSE j \in GroupIndex(created, fp) : TRUE
    IN  [created EXCEPT ![i].detectedBy = Append(@, toolName)]

RECURSIVE GroupAlerts(_, _, _)
GroupAlerts(fingerprints, toolName, list) ==
    IF Len(list) = 0 THEN fingerprints
    ELSE GroupAlerts(PushDetected(fingerprints, toolName, list[1]), toolName, Tail(list))

RECURSIVE GroupTools(_, _)
GroupTools(fingerprints, toolResults) ==
    IF Len(toolResults) = 0 THEN fingerprints
    ELSE GroupTools(GroupAlerts(fingerprints, toolResults[1].tool, toolResults[1].alerts),
                    Tail(toolResults))

\* a filter that asks for more than two detectors
IsSharedByThree(f) == Len(f.detectedBy) > 2

IsShared(f) == Len(f.detectedBy) > 1
\* a filter that keeps every group that has a detector
IsUniqueAtLeastOne(f) == Len(f.detectedBy) >= 1

IsUnique(f) == Len(f.detectedBy) = 1

\* toolResults: the entries of the object, in key order
findOverlap(toolResults) ==
    LET fingerprints == GroupTools(<<>>, toolResults)
    IN  [overlap |-> SelectSeq(fingerprints, IsShared),
         unique |-> SelectSeq(fingerprints, IsUnique),
         total |-> Len(fingerprints)]

\* (uniqueDetections / totalDetections * 100).toFixed(2), in hundredths of a
\* percent; the other branch of the conditional is the number 0
UniquenessRate(uniqueDetections, totalDetections) ==
    IF totalDetections > 0
    THEN [type |-> "string",
          hundredths |-> (2 * 10000 * uniqueDetections + totalDetections)
                             \div (2 * totalDetections)]
    ELSE [type |-> "number", hundredths |-> 0]

\* a count of the unique groups that does not look at the detecting tool
UniqueDetectionsAnyTool(toolName, overlapData) == Len(overlapData.unique)

\* overlapData.unique.filter(u => u.detectedBy[0] === toolName).length
UniqueDetections(toolName, overlapData) ==
    Cardinality({i \in 1..Len(overlapData.unique) :
                    overlapData.unique[i].detectedBy[1] = toolName})

\* a count of the shared groups that does not look at the detecting tools
SharedDetectionsAnyTool(toolName, overlapData) == Len(overlapData.overlap)

\* overlapData.overlap.filter(o => o.detectedBy.includes(toolName)).length
SharedDetections(toolName, overlapData) ==
    Cardinality({i \in 1..Len(overlapData.overlap) :
                    \E k \in 1..Len(overlapData.overlap[i].detectedBy) :
                        overlapData.overlap[i].detectedBy[k] = toolName})

ToolMetrics(toolName, list, overlapData) ==
    [total_detections |-> Len(list),
     unique_detections |-> UniqueDetections(toolName, overlapData),
     shared_detections |-> SharedDetections(toolName, overlapData),
     uniqueness_rate |-> UniquenessRate(UniqueDetections(toolName, overlapData), Len(list))]

calculateEffectiveness(toolResults, overlapData) ==
    [i \in 1..Len(toolResults) |->
        [tool |-> toolResults[i].tool,
         metrics |-> ToolMetrics(toolResults[i].tool, toolResults[i].alerts, overlapData)]]

\* alerts.filter(a => a.security_severity === severity).length
SeverityCount(list, severity) ==
    Cardinality({i \in 1..Len(list) : list[i].security_severity = Str(severity)})

analyzeBySeverity(toolResults) ==
    [i \in 1..Len(toolResults) |->
        [tool |-> toolResults[i].tool,
         critical |-> SeverityCount(toolResults[i].alerts, s_critical),
         high |-> SeverityCount(toolResults[i].alerts, s_high),
         medium |-> SeverityCount(toolResults[i].alerts, s_medium),
         low |-> SeverityCount(toolResults[i].alerts, s_low)]]

\* byCategory[toolName][category] = (byCategory[toolName][category] || 0) + 1,
\* counts being the entries of byCategory[toolName] in key order
CountCategory(counts, alert) ==
    LET category == OrElse(alert.category, Str(s_Other))
        at == {i \in 1..Len(counts) : counts[i].category = category}
    IN  IF at = {}
        THEN Append(counts, [category |-> category, count |-> 1])
        ELSE LET i == CHOOSE j \in at : TRUE
             IN  [counts EXCEPT ![i].count = @ + 1]

RECURSIVE CountCategories(_, _)
CountCategories(counts, list) ==
    IF Len(list) = 0 THEN counts
    ELSE CountCategories(CountCategory(counts, list[1]), Tail(list))

analyzeByCategory(toolResults) ==
    [i \in 1..Len(toolResults) |->
        [tool |-> toolResults[i].tool,
         counts |-> CountCategories(<<>>, toolResults[i].alerts)]]

-----------------------------------------------------------------------------
(* database/storage.js *)

\* the forEach of getToolComparison: byTool is the list of entries in key order
GroupByTool(byTool, alert) ==
    LET toolName == alert.tool_name
        at == {i \in 1..Len(byTool) : byTool[i].tool = toolName}
        created == IF at = {}
                   THEN Append(byTool, [tool |-> toolName, alerts |-> <<>>])
                   ELSE byTool
        i == CHOOSE j \in 1..Len(created) : created[j].tool = toolName
    IN  [created EXCEPT ![i].alerts = Append(@, alert)]

RECURSIVE GroupAllByTool(_, _)
GroupAllByTool(byTool, found) ==
    IF Len(found) = 0 THEN byTool
    ELSE GroupAllByTool(GroupByTool(byTool, found[1]), Tail(found))

\* found: the Alert documents of the repository, as Alert.find returns them
\* a grouping that starts with an entry for a tool before any alert is seen
getToolComparisonSeeded(found) ==
    GroupAllByTool(<<[tool |-> "Semgrep", alerts |-> <<>>]>>, found)

getToolComparison(found) == GroupAllByTool(<<>>, found)

-----------------------------------------------------------------------------
(* comparison/analyzer.js, compareRepository *)

\* rule ids of stored alerts are strings or absent, so extractCategory returns
NormalizedRecord(alert) ==
    [rule_id |-> alert.rule_id,
     security_severity |-> alert.security_severity,
     category |-> AnalyzerExtractCategory(alert).val,
     location |-> alert.location,
     fingerprint |-> createFingerprint(alert)]

NormalizeResults(toolResults) ==
    [i \in 1..Len(toolResults) |->
        [tool |-> toolResults[i].tool,
         alerts |-> [k \in 1..Len(toolResults[i].alerts) |->
                        NormalizedRecord(toolResults[i].alerts[k])]]]

compareRepository(found) ==
    LET toolResults == getToolComparison(found)
        normalizedResults == NormalizeResults(toolResults)
        overlapData == findOverlap(normalizedResults)
    IN  [tools |-> [i \in 1..Len(toolResults) |-> toolResults[i].tool],
         overlap |-> [common_findings |-> Len(overlapData.overlap),
                      unique_findings |-> Len(overlapData.unique),
                      total_unique_issues |-> overlapData.total],
         effectiveness |-> calculateEffectiveness(normalizedResults, overlapData),
         by_severity |-> analyzeBySeverity(normalizedResults),
         by_category |-> analyzeByCategory(normalizedResults),
         detailed_overlap |-> overlapData.overlap,
         detailed_unique |-> overlapData.unique]

-----------------------------------------------------------------------------
(* The comparison of one repository: alerts are stored, then compared *)

MaxAlerts == 3

Tools == {"Semgrep", "Snyk Code", "SonarQube"}

\* stored alerts: two carry the same identity, one with and one without a
\* category of its own; one has no start line
AlertPool ==
    { [rule_id |-> Str(s_xss), security_severity |-> Str(s_high), category |-> Undef,
       location |-> [path |-> Str(s_a), start_line |-> Num(1)]],
      [rule_id |-> Str(s_xss), security_severity |-> Str(s_medium), category |-> Str(s_XSS),
       location |-> [path |-> Str(s_a), start_line |-> Num(1)]],
      [rule_id |-> Str(s_sql), security_severity |-> Str(s_critical), category |-> Undef,
       location |-> [path |-> Str(s_b), start_line |-> Num(12)]],
      [rule_id |-> Str(s_r), security_severity |-> Str(s_low), category |-> Undef,
       location |-> [path |-> Str(s_a), start_line |-> Null]] }

NoReport == [none |-> TRUE]
Idle == <<>>
NoTool == "none"

\* Alert.create of storeAnalysis, for an analysis of tool toolName
StoredAlert(toolName, alert) ==
    [tool_name |-> toolName,
     rule_id |-> alert.rule_id,
     security_severity |-> alert.security_severity,
     category |-> alert.category,
     location |-> alert.location]

StoreAlert(toolName, alert) ==
    /\ pc = "input"
    /\ Len(alerts) < MaxAlerts
    /\ alerts' = Append(alerts, StoredAlert(toolName, alert))
    /\ UNCHANGED <<pc, report, fpIn, fpOut, sevIn, sevOut, catIn, catOut, effIn, effOut,
                 scanTool, scanEnvs, scanOut, parseOut,
                 repositories, analyses, storeIn, storeOut, storeAt, comparedOn,
                   calls, props, mainRun>>

CompareRepository ==
    /\ pc = "input"
    /\ report' = compareRepository(alerts)
    /\ pc' = "done"
    /\ UNCHANGED <<alerts, fpIn, fpOut, sevIn, sevOut, catIn, catOut, effIn, effOut,
                 scanTool, scanEnvs, scanOut, parseOut,
                 repositories, analyses, storeIn, storeOut, storeAt, comparedOn,
                   calls, props, mainRun>>

Init ==
    /\ pc = "input"
    /\ alerts = <<>>
    /\ report = NoReport
    /\ fpIn = Idle /\ fpOut = Idle
    /\ sevIn = Idle /\ sevOut = Idle
    /\ catIn = Idle /\ catOut = Idle
    /\ effIn = Idle /\ effOut = Idle
    /\ scanTool = NoTool /\ scanEnvs = Idle /\ scanOut = Idle /\ parseOut = Idle
    /\ repositories = Idle /\ analyses = Idle /\ storeIn = Idle
    /\ storeOut = Idle /\ storeAt = 0 /\ comparedOn = Idle
    /\ calls = Idle /\ props = Idle /\ mainRun = Idle

Next ==
    \/ \E toolName \in Tools, alert \in AlertPool : StoreAlert(toolName, alert)
    \/ CompareRepository

Spec == Init /\ [][Next]_vars


-----------------------------------------------------------------------------
(* What the claims about the overlap analysis speak of *)

ToSet(list) == {list[i] : i \in 1..Len(list)}

\* the input of findOverlap inside compareRepository
NormalizedInput == NormalizeResults(getToolComparison(alerts))

ReportedOverlap ==
    [overlap |-> report.detailed_overlap,
     unique |-> report.detailed_unique,
     total |-> report.overlap.total_unique_issues]

GroupsOf(overlapData) == ToSet(overlapData.overlap) \cup ToSet(overlapData.unique)
FingerprintsOf(groups) == {groups[i].fingerprint : i \in 1..Len(groups)}

\* the fingerprints of the input, and the distinct tools that report one
InputFingerprints ==
    UNION {{createFingerprint(a) : a \in ToSet(NormalizedInput[i].alerts)} :
              i \in 1..Len(NormalizedInput)}

ReportingTools(fp) ==
    {NormalizedInput[i].tool : i \in
        {j \in 1..Len(NormalizedInput) :
            \E a \in ToSet(NormalizedInput[j].alerts) : createFingerprint(a) = fp}}

\* C1: in every group that findOverlap returns, each tool name occurs at most
\* once in detectedBy, also when a tool reports one fingerprint several times.
C1_DetectedByIsSet ==
    pc = "done" =>
        \A g \in GroupsOf(ReportedOverlap) :
            \A i, j \in 1..Len(g.detectedBy) :
                i # j => g.detectedBy[i] # g.detectedBy[j]

\* C2: a fingerprint reported by exactly one distinct tool is in unique and
\* not in overlap, so unique_findings counts the fingerprints of one tool and
\* common_findings those of several.
C2_SingleToolIsUnique ==
    pc = "done" =>
        /\ \A fp \in InputFingerprints :
              Cardinality(ReportingTools(fp)) = 1 =>
                  /\ fp \in FingerprintsOf(report.detailed_unique)
                  /\ fp \notin FingerprintsOf(report.detailed_overlap)
        /\ report.overlap.unique_findings =
              Cardinality({fp \in InputFingerprints : Cardinality(ReportingTools(fp)) = 1})
        /\ report.overlap.common_findings =
              Cardinality({fp \in InputFingerprints : Cardinality(ReportingTools(fp)) > 1})

OrdersOf(list) ==
    {[i \in 1..Len(list) |-> list[p[i]]] :
        p \in {q \in [1..Len(list) -> 1..Len(list)] :
                  \A i, j \in 1..Len(list) : q[i] = q[j] => i = j}}

\* toolResults with each tool's list permuted
RECURSIVE ListArrangements(_)
ListArrangements(toolResults) ==
    IF Len(toolResults) = 0 THEN {<<>>}
    ELSE {<<[tool |-> toolResults[1].tool, alerts |-> list]>> \o rest :
             list \in OrdersOf(toolResults[1].alerts),
             rest \in ListArrangements(Tail(toolResults))}

\* toolResults in every key order, with every order of each list
Arrangements(toolResults) ==
    UNION {OrdersOf(arranged) : arranged \in ListArrangements(toolResults)}

\* an overlap result without the order of its lists and without the
\* representative alerts
Partition(overlapData) ==
    LET Membership(groups) ==
            {[fingerprint |-> g.fingerprint, detectedBy |-> ToSet(g.detectedBy)] :
                g \in ToSet(groups)}
    IN  [overlap |-> Membership(overlapData.overlap),
         unique |-> Membership(overlapData.unique),
         total |-> overlapData.total]

\* C4: findOverlap gives the same fingerprints in overlap, the same in unique,
\* the same detectedBy members per group and the same total for every order of
\* the tools and every order of each tool's list.
C4_OrderIndependent ==
    pc = "done" =>
        \A arranged \in Arrangements(NormalizedInput) :
            Partition(findOverlap(arranged)) = Partition(ReportedOverlap)

\* two tools, one of them with two different findings, a shared and a unique group
C4_Witness ==
    /\ pc = "done"
    /\ Len(report.tools) > 1
    /\ \E i \in 1..Len(NormalizedInput) :
          Cardinality(ToSet(NormalizedInput[i].alerts)) > 1
    /\ Len(report.detailed_overlap) > 0
    /\ Len(report.detailed_unique) > 0

-----------------------------------------------------------------------------
(* Property lookup in an object literal *)

\* the property key of a value used as an index
PropertyKey(v) ==
    CASE v.t = "undefined" -> s_undefined
      [] v.t = "number" -> NumToString(v.n)
      [] v.t = "string" -> v.s
      [] OTHER -> s__object_Object_

\* names every object literal inherits from Object.prototype
ObjectPrototypeKeys ==
    {s_constructor, s___proto__, s_toString, s_valueOf, s_hasOwnProperty}

\* table[key] for an object literal given as its list of <<key, value>> pairs:
\* an own property, else an inherited one, else undefined
Lookup(table, key) ==
    LET name == PropertyKey(key)
        own == {i \in 1..Len(table) : table[i][1] = name}
    IN  IF own # {} THEN Str(table[CHOOSE i \in own : TRUE][2])
        ELSE IF name \in ObjectPrototypeKeys THEN Obj(name)
        ELSE Undef

-----------------------------------------------------------------------------
(* parsers/*-parser.js, normalizeSeverity *)

SemgrepSeverityMap ==
    << <<s_ERROR, s_critical>>, <<s_WARNING, s_high>>, <<s_INFO, s_medium>> >>

SnykSeverityMap ==
    << <<s_error, s_high>>, <<s_warning, s_medium>>, <<s_note, s_low>>,
       <<s_high, s_high>>, <<s_medium, s_medium>>, <<s_low, s_low>> >>

SonarQubeSeverityMap ==
    << <<s_BLOCKER, s_critical>>, <<s_CRITICAL, s_critical>>, <<s_MAJOR, s_high>>,
       <<s_MINOR, s_medium>>, <<s_INFO, s_low>> >>

ESLintCriticalRules ==
    {s_security_detect_eval_with_expression, s_security_detect_unsafe_regex,
     s_security_detect_buffer_noassert, s_security_detect_pseudoRandomBytes,
     s_no_unsanitized_method, s_no_unsanitized_property}

\* severityMap[token?.toUpperCase()] || 'medium' : ?. guards only an absent
\* token, a token of another type has no toUpperCase and the call throws
MapUpperCase(table, token) ==
    IF IsNullish(token) THEN Returned(OrElse(Lookup(table, Undef), Str(s_medium)))
    ELSE IF ~IsString(token) THEN Threw
    ELSE Returned(OrElse(Lookup(table, Str(toUpperCase(token.s))), Str(s_medium)))

MapLowerCase(table, token) ==
    IF IsNullish(token) THEN Returned(OrElse(Lookup(table, Undef), Str(s_medium)))
    ELSE IF ~IsString(token) THEN Threw
    ELSE Returned(OrElse(Lookup(table, Str(toLowerCase(token.s))), Str(s_medium)))

SemgrepNormalizeSeverity(semgrepSeverity) == MapUpperCase(SemgrepSeverityMap, semgrepSeverity)

SnykNormalizeSeverity(snykSeverity) == MapLowerCase(SnykSeverityMap, snykSeverity)

SonarQubeNormalizeSeverity(sonarSeverity) == MapUpperCase(SonarQubeSeverityMap, sonarSeverity)

ESLintNormalizeSeverity(eslintSeverity, ruleId) ==
    IF IsString(ruleId) /\ ruleId.s \in ESLintCriticalRules THEN Returned(Str(s_high))
    ELSE IF eslintSeverity = Num(2) THEN Returned(Str(s_high))
    ELSE Returned(Str(s_medium))

normalizeSeverity(tool, token, ruleId) ==
    CASE tool = "Semgrep" -> SemgrepNormalizeSeverity(token)
      [] tool = "Snyk Code" -> SnykNormalizeSeverity(token)
      [] tool = "SonarQube" -> SonarQubeNormalizeSeverity(token)
      [] tool = "ESLint" -> ESLintNormalizeSeverity(token, ruleId)

-----------------------------------------------------------------------------
(* parsers/*-parser.js, extractCategory *)

SemgrepCategories ==
    << <<s_xss, s_XSS>>, <<s_sql_injection, s_SQL_Injection>>, <<s_sqli, s_SQL_Injection>>,
       <<s_command_injection, s_Command_Injection>>, <<s_path_traversal, s_Path_Traversal>>,
       <<s_ssrf, s_SSRF>>, <<s_csrf, s_CSRF>>, <<s_hardcoded, s_Hardcoded_Credentials>>,
       <<s_deserialization, s_Insecure_Deserialization>>, <<s_auth, s_Auth_Flaws>>,
       <<s_crypto, s_Cryptography>>, <<s_regex, s_ReDoS>> >>

SnykCategories ==
    << <<s_sql, s_SQL_Injection>>, <<s_xss, s_XSS>>, <<s_injection, s_Code_Injection>>,
       <<s_command, s_Command_Injection>>, <<s_path, s_Path_Traversal>>,
       <<s_traversal, s_Path_Traversal>>, <<s_ssrf, s_SSRF>>, <<s_csrf, s_CSRF>>,
       <<s_hardcoded, s_Hardcoded_Credentials>>, <<s_password, s_Hardcoded_Credentials>>,
       <<s_secret, s_Hardcoded_Credentials>>,
       <<s_deserialization, s_Insecure_Deserialization>>, <<s_crypto, s_Cryptography>>,
       <<s_auth, s_Auth_Flaws>>, <<s_session, s_Session_Management>>,
       <<s_redirect, s_Open_Redirect>> >>

SonarQubeCategories ==
    << <<s_sql, s_SQL_Injection>>, <<s_xss, s_XSS>>, <<s_injection, s_Code_Injection>>,
       <<s_command, s_Command_Injection>>, <<s_path, s_Path_Traversal>>,
       <<s_traversal, s_Path_Traversal>>, <<s_ssrf, s_SSRF>>, <<s_csrf, s_CSRF>>,
       <<s_password, s_Hardcoded_Credentials>>, <<s_secret, s_Hardcoded_Credentials>>,
       <<s_hardcoded, s_Hardcoded_Credentials>>,
       <<s_deserialization, s_Insecure_Deserialization>>, <<s_crypto, s_Cryptography>>,
       <<s_auth, s_Auth_Flaws>>, <<s_session, s_Session_Management>>,
       <<s_redirect, s_Open_Redirect>>, <<s_xxe, s_XXE>>, <<s_ldap, s_LDAP_Injection>> >>

ESLintCategoryMap ==
    << <<s_eval, s_Code_Injection>>, <<s_child_process, s_Command_Injection>>,
       <<s_regex, s_ReDoS>>, <<s_csrf, s_CSRF>>, <<s_timing, s_Timing_Attack>>,
       <<s_crypto, s_Cryptography>>, <<s_unsanitized, s_XSS>>,
       <<s_object_injection, s_Injection>>, <<s_require, s_Path_Traversal>> >>

\* the loop of the two-argument classifiers: the first key that the rule id
\* or the message includes
RECURSIVE FirstKeywordOfEither(_, _, _)
FirstKeywordOfEither(table, lowerRuleId, lowerMessage) ==
    IF Len(table) = 0 THEN s_Other
    ELSE IF includes(lowerRuleId, table[1][1]) \/ includes(lowerMessage, table[1][1])
         THEN table[1][2]
    ELSE FirstKeywordOfEither(Tail(table), lowerRuleId, lowerMessage)

\* ruleId.toLowerCase() throws for a rule id that is not a string
SemgrepExtractCategory(ruleId) ==
    IF ~IsString(ruleId) THEN Threw
    ELSE Returned(Str(FirstKeyword(SemgrepCategories, toLowerCase(ruleId.s))))

SnykExtractCategory(ruleId, message) ==
    IF ~IsString(ruleId) \/ ~IsString(message) THEN Threw
    ELSE Returned(Str(FirstKeywordOfEither(SnykCategories,
                                           toLowerCase(ruleId.s), toLowerCase(message.s))))

SonarQubeExtractCategory(rule, message) ==
    IF ~IsString(rule) \/ ~IsString(message) THEN Threw
    ELSE Returned(Str(FirstKeywordOfEither(SonarQubeCategories,
                                           toLowerCase(rule.s), toLowerCase(message.s))))

ESLintExtractCategory(ruleId) ==
    IF ~IsString(ruleId) THEN Threw
    ELSE Returned(Str(FirstKeyword(ESLintCategoryMap, toLowerCase(ruleId.s))))

\* the classifier of each component, on a rule id, a message and the category
\* the record already has
extractCategory(classifier, ruleId, message, category) ==
    CASE classifier = "Semgrep" -> SemgrepExtractCategory(ruleId)
      [] classifier = "Snyk Code" -> SnykExtractCategory(ruleId, message)
      [] classifier = "SonarQube" -> SonarQubeExtractCategory(ruleId, message)
      [] classifier = "ESLint" -> ESLintExtractCategory(ruleId)
      [] classifier = "analyzer" ->
            AnalyzerExtractCategory([rule_id |-> ruleId, message |-> message,
                                     category |-> category])

\* normalizeAlert: category: finding.category || 'Other'
NormalizeAlertCategory(category) == OrElse(category, Str(s_Other))

-----------------------------------------------------------------------------
(* createFingerprint on two findings *)

\* findings over a few rule ids, paths, start lines and categories, among
\* them components that contain the separator, an absent start line and an
\* empty one; tool and message vary too
FingerprintRuleIds == {Str(s_a), Str(s_acc)}
FingerprintPaths == {Str(s_b), Str(s_ccb)}
FingerprintLines == {Null, Num(1), Str(<<>>)}
FingerprintCategories == {Str(s_XSS), Str(s_Other)}

FingerprintFindings ==
    {[tool_name |-> tool, message |-> Str(s_m), rule_id |-> ruleId, category |-> category,
      location |-> [path |-> path, start_line |-> line]] :
        tool \in {"Semgrep", "Snyk Code"}, ruleId \in FingerprintRuleIds,
        path \in FingerprintPaths, line \in FingerprintLines,
        category \in FingerprintCategories}

CreateFingerprints ==
    /\ pc = "input"
    /\ fpOut' = <<createFingerprint(fpIn[1]), createFingerprint(fpIn[2])>>
    /\ pc' = "done"
    /\ UNCHANGED <<alerts, report, fpIn, sevIn, sevOut, catIn, catOut, effIn, effOut,
                 scanTool, scanEnvs, scanOut, parseOut,
                 repositories, analyses, storeIn, storeOut, storeAt, comparedOn,
                   calls, props, mainRun>>

InitFingerprint ==
    /\ pc = "input"
    /\ fpIn \in FingerprintFindings \X FingerprintFindings
    /\ fpOut = Idle
    /\ alerts = <<>> /\ report = NoReport
    /\ sevIn = Idle /\ sevOut = Idle
    /\ catIn = Idle /\ catOut = Idle
    /\ effIn = Idle /\ effOut = Idle
    /\ scanTool = NoTool /\ scanEnvs = Idle /\ scanOut = Idle /\ parseOut = Idle
    /\ repositories = Idle /\ analyses = Idle /\ storeIn = Idle
    /\ storeOut = Idle /\ storeAt = 0 /\ comparedOn = Idle
    /\ calls = Idle /\ props = Idle /\ mainRun = Idle

NextFingerprint == CreateFingerprints

SpecFingerprint == InitFingerprint /\ [][NextFingerprint]_vars

IdentityTuple(finding) == FingerprintComponents(finding)

\* C5: two findings get the same fingerprint if and only if they agree on
\* (rule_id, location.path, location.start_line, category), whatever their
\* tool and message, also when a component contains "::".
C5_FingerprintIsIdentity ==
    pc = "done" =>
        (fpOut[1] = fpOut[2] <=> IdentityTuple(fpIn[1]) = IdentityTuple(fpIn[2]))

\* C6: a finding whose start line is null and a finding that differs from it
\* only in having the empty string there get different fingerprints.
C6_NullLineIsSentinel ==
    (/\ pc = "done"
     /\ fpIn[1].location.start_line = Null
     /\ fpIn[2].location.start_line = Str(<<>>)
     /\ fpIn[1].rule_id = fpIn[2].rule_id
     /\ fpIn[1].location.path = fpIn[2].location.path
     /\ fpIn[1].category = fpIn[2].category)
    => fpOut[1] # fpOut[2]

-----------------------------------------------------------------------------
(* normalizeSeverity on one native token *)

SeverityTools == {"Semgrep", "Snyk Code", "SonarQube", "ESLint"}

SeverityTokens ==
    {Undef, Null, Num(0), Num(1), Num(2), Str(<<>>)}
    \cup {Str(s) : s \in {s_ERROR, s_WARNING, s_INFO, s_Error, s_error, s_warning, s_Warning,
                          s_note, s_high, s_medium, s_low, s_BLOCKER, s_CRITICAL, s_critical,
                          s_MAJOR, s_MINOR, s_constructor, s_bogus}}

\* the rule id matters to the ESLint parser alone
SeverityRuleIds(tool) ==
    IF tool = "ESLint"
    THEN {Null, Str(s_security_detect_unsafe_regex), Str(s_r)}
    ELSE {Undef}

NormalizeSeverity ==
    /\ pc = "input"
    /\ sevOut' = normalizeSeverity(sevIn.tool, sevIn.token, sevIn.ruleId)
    /\ pc' = "done"
    /\ UNCHANGED <<alerts, report, fpIn, fpOut, sevIn, catIn, catOut, effIn, effOut,
                 scanTool, scanEnvs, scanOut, parseOut,
                 repositories, analyses, storeIn, storeOut, storeAt, comparedOn,
                   calls, props, mainRun>>

InitSeverity ==
    /\ pc = "input"
    /\ \E tool \in SeverityTools, token \in SeverityTokens :
          \E ruleId \in SeverityRuleIds(tool) :
              sevIn = [tool |-> tool, token |-> token, ruleId |-> ruleId]
    /\ sevOut = Idle
    /\ alerts = <<>> /\ report = NoReport
    /\ fpIn = Idle /\ fpOut = Idle
    /\ catIn = Idle /\ catOut = Idle
    /\ effIn = Idle /\ effOut = Idle
    /\ scanTool = NoTool /\ scanEnvs = Idle /\ scanOut = Idle /\ parseOut = Idle
    /\ repositories = Idle /\ analyses = Idle /\ storeIn = Idle
    /\ storeOut = Idle /\ storeAt = 0 /\ comparedOn = Idle
    /\ calls = Idle /\ props = Idle /\ mainRun = Idle

NextSeverity == NormalizeSeverity

SpecSeverity == InitSeverity /\ [][NextSeverity]_vars

CanonicalSeverities == {Str(s_critical), Str(s_high), Str(s_medium), Str(s_low)}

\* the native tokens of a tool's table, compared without regard to case; the
\* ESLint parser knows the numbers 1 and 2
InSeverityTable(tool, token) ==
    LET Keys(table) == {toLowerCase(table[i][1]) : i \in 1..Len(table)}
        Known(table) == IsString(token) /\ toLowerCase(token.s) \in Keys(table)
    IN  CASE tool = "Semgrep" -> Known(SemgrepSeverityMap)
          [] tool = "Snyk Code" -> Known(SnykSeverityMap)
          [] tool = "SonarQube" -> Known(SonarQubeSeverityMap)
          [] tool = "ESLint" -> token \in {Num(1), Num(2)}

\* C7: for every tool and every token normalizeSeverity returns, without
\* failing, one of critical, high, medium, low, and medium for a token that
\* is not in the tool's table.
C7_SeverityTotal ==
    pc = "done" =>
        /\ ~sevOut.threw
        /\ sevOut.val \in CanonicalSeverities
        /\ (~InSeverityTable(sevIn.tool, sevIn.token) => sevOut.val = Str(s_medium))

\* C8: the mapping of the README: Semgrep ERROR is high and WARNING medium,
\* Snyk error is high and warning medium.
C8_DocumentedMapping ==
    pc = "done" =>
        /\ (sevIn.tool = "Semgrep" /\ sevIn.token = Str(s_ERROR)) => sevOut.val = Str(s_high)
        /\ (sevIn.tool = "Semgrep" /\ sevIn.token = Str(s_WARNING)) => sevOut.val = Str(s_medium)
        /\ (sevIn.tool = "Snyk Code" /\ sevIn.token = Str(s_error)) => sevOut.val = Str(s_high)
        /\ (sevIn.tool = "Snyk Code" /\ sevIn.token = Str(s_warning)) => sevOut.val = Str(s_medium)

-----------------------------------------------------------------------------
(* extractCategory on one rule id and message, then normalizeAlert *)

Classifiers == {"Semgrep", "Snyk Code", "SonarQube", "ESLint", "analyzer"}

CategoryRuleIds ==
    {Undef, Null}
    \cup {Str(s) : s \in {s_r, s_xs, s_Xss, s_sqlxss, s_command_injection, s_injection,
                          s_xxe, s_r_eval, s_a_timing}}

CategoryMessages == {Undef, Str(s_m), Str(s_s), Str(s_xss)}

\* the parsers' classifiers take no category; the analyzer reads the alert's
ExistingCategories(classifier) ==
    IF classifier = "analyzer" THEN {Undef, Str(<<>>), Str(s_XSS)}
    ELSE {Undef}

ExtractCategory ==
    /\ pc = "input"
    /\ catOut' = [result |-> extractCategory(catIn.classifier, catIn.ruleId,
                                             catIn.message, catIn.category),
                  alert |-> Undef]
    /\ pc' = "classified"
    /\ UNCHANGED <<alerts, report, fpIn, fpOut, sevIn, sevOut, catIn, effIn, effOut,
                 scanTool, scanEnvs, scanOut, parseOut,
                 repositories, analyses, storeIn, storeOut, storeAt, comparedOn,
                   calls, props, mainRun>>

\* the finding of a parser goes through normalizeAlert
NormalizeAlert ==
    /\ pc = "classified"
    /\ catIn.classifier # "analyzer"
    /\ ~catOut.result.threw
    /\ catOut' = [catOut EXCEPT !.alert = NormalizeAlertCategory(catOut.result.val)]
    /\ pc' = "done"
    /\ UNCHANGED <<alerts, report, fpIn, fpOut, sevIn, sevOut, catIn, effIn, effOut,
                 scanTool, scanEnvs, scanOut, parseOut,
                 repositories, analyses, storeIn, storeOut, storeAt, comparedOn,
                   calls, props, mainRun>>

InitCategory ==
    /\ pc = "input"
    /\ \E classifier \in Classifiers, ruleId \in CategoryRuleIds,
          message \in CategoryMessages :
          \E category \in ExistingCategories(classifier) :
              catIn = [classifier |-> classifier, ruleId |-> ruleId,
                       message |-> message, category |-> category]
    /\ catOut = Idle
    /\ alerts = <<>> /\ report = NoReport
    /\ fpIn = Idle /\ fpOut = Idle
    /\ sevIn = Idle /\ sevOut = Idle
    /\ effIn = Idle /\ effOut = Idle
    /\ scanTool = NoTool /\ scanEnvs = Idle /\ scanOut = Idle /\ parseOut = Idle
    /\ repositories = Idle /\ analyses = Idle /\ storeIn = Idle
    /\ storeOut = Idle /\ storeAt = 0 /\ comparedOn = Idle
    /\ calls = Idle /\ props = Idle /\ mainRun = Idle

NextCategory == ExtractCategory \/ NormalizeAlert

SpecCategory == InitCategory /\ [][NextCategory]_vars

Classified == pc \in {"classified", "done"}

\* the keyword list of each classifier
KeywordList(classifier) ==
    CASE classifier = "Semgrep" -> SemgrepCategories
      [] classifier = "Snyk Code" -> SnykCategories
      [] classifier = "SonarQube" -> SonarQubeCategories
      [] classifier = "ESLint" -> ESLintCategoryMap
      [] classifier = "analyzer" -> AnalyzerKeywords

TextOf(v) == IF IsString(v) THEN v.s ELSE <<>>

\* the category the classification contract gives
ContractCategory(classifier, ruleId, message, category) ==
    IF Truthy(category) THEN category
    ELSE Str(FirstKeyword(KeywordList(classifier),
                          toLowerCase(TextOf(ruleId) \o TextOf(message))))

\* C9: a non-empty existing category is returned unchanged; otherwise the
\* result is the category of the first keyword of the classifier's list that
\* occurs, whatever the case, in the rule id followed by the message, and
\* Other when none occurs; the classifier never fails, also when the rule id
\* or the message is absent.
C9_ClassifierContract ==
    Classified =>
        /\ ~catOut.result.threw
        /\ catOut.result.val =
              ContractCategory(catIn.classifier, catIn.ruleId, catIn.message, catIn.category)

Vocabulary ==
    {Str(s) : s \in {s_XSS, s_SQL_Injection, s_Command_Injection, s_Path_Traversal, s_SSRF,
                     s_CSRF, s_Hardcoded_Credentials, s_Insecure_Deserialization,
                     s_Cryptography, s_Auth_Flaws, s_Session_Management, s_Open_Redirect,
                     s_ReDoS, s_Other}}

\* C10: every category a classifier returns, and every category normalizeAlert
\* puts on an alert, is one of the fourteen of the vocabulary.
C10_CategoryInVocabulary ==
    /\ (Classified /\ ~catOut.result.threw) => catOut.result.val \in Vocabulary
    /\ (pc = "done" => catOut.alert \in Vocabulary)


\* the classifiers that the same finding may pass through, whichever tool
\* reports it
CrossToolClassifiers == {"Semgrep", "Snyk Code", "SonarQube", "analyzer"}

\* C11: for every rule id and message the Semgrep, Snyk and SonarQube
\* classifiers and the analyzer's extractCategory return the same category.
C11_SameCategoryAcrossTools ==
    (/\ Classified
     /\ catIn.classifier \in CrossToolClassifiers
     /\ IsString(catIn.ruleId) /\ IsString(catIn.message)
     /\ catIn.category = Undef)
    => \A other \in CrossToolClassifiers :
          extractCategory(other, catIn.ruleId, catIn.message, Undef) = catOut.result


-----------------------------------------------------------------------------
(* calculateEffectiveness over tool results that may hold empty lists *)

MaxFindings == 2

\* the keys of toolResults, in insertion order
EffectivenessTools == <<"Semgrep", "Snyk Code">>

\* the records that compareRepository builds from stored alerts
EffectivenessFindings == {NormalizedRecord(alert) : alert \in AlertPool}

EffectivenessLists == UNION {[1..k -> EffectivenessFindings] : k \in 0..MaxFindings}

\* findOverlap, then calculateEffectiveness on its result, as compareRepository
\* calls them
CalculateEffectiveness ==
    /\ pc = "input"
    /\ effIn # Idle
    /\ LET overlapData == findOverlap(effIn)
       IN  effOut' = [overlapData |-> overlapData,
                      effectiveness |-> calculateEffectiveness(effIn, overlapData)]
    /\ pc' = "done"
    /\ UNCHANGED <<alerts, report, fpIn, fpOut, sevIn, sevOut, catIn, catOut, effIn,
                 scanTool, scanEnvs, scanOut, parseOut,
                 repositories, analyses, storeIn, storeOut, storeAt, comparedOn,
                   calls, props, mainRun>>

InitEffectiveness ==
    /\ pc = "input"
    /\ \E lists \in [1..Len(EffectivenessTools) -> EffectivenessLists] :
          effIn = [i \in 1..Len(EffectivenessTools) |->
                      [tool |-> EffectivenessTools[i], alerts |-> lists[i]]]
    /\ effOut = Idle
    /\ alerts = <<>> /\ report = NoReport
    /\ fpIn = Idle /\ fpOut = Idle
    /\ sevIn = Idle /\ sevOut = Idle
    /\ catIn = Idle /\ catOut = Idle
    /\ scanTool = NoTool /\ scanEnvs = Idle /\ scanOut = Idle /\ parseOut = Idle
    /\ repositories = Idle /\ analyses = Idle /\ storeIn = Idle
    /\ storeOut = Idle /\ storeAt = 0 /\ comparedOn = Idle
    /\ calls = Idle /\ props = Idle /\ mainRun = Idle

NextEffectiveness == CalculateEffectiveness

SpecEffectiveness == InitEffectiveness /\ [][NextEffectiveness]_vars

Calculated == pc = "done" /\ effOut # Idle

\* C12: every tool's uniqueness_rate lies between 0 and 100 (the rate is kept
\* in hundredths of a percent), and it is 0 when the tool's total_detections
\* is 0.
C12_UniquenessRateBounds ==
    Calculated =>
        \A i \in 1..Len(effOut.effectiveness) :
            LET metrics == effOut.effectiveness[i].metrics
            IN  /\ 0 <= metrics.uniqueness_rate.hundredths
                /\ metrics.uniqueness_rate.hundredths <= 100 * 100
                /\ (metrics.total_detections = 0
                       => metrics.uniqueness_rate.hundredths = 0)

\* one tool has no finding at all, the other has only findings of its own
C12_Witness ==
    /\ Calculated
    /\ \E i, k \in 1..Len(effOut.effectiveness) :
          /\ effOut.effectiveness[i].metrics.total_detections = 0
          /\ effOut.effectiveness[i].metrics.uniqueness_rate.hundredths = 0
          /\ effOut.effectiveness[k].metrics.total_detections > 0
          /\ effOut.effectiveness[k].metrics.uniqueness_rate.hundredths = 100 * 100

\* C13: for every tool unique_detections + shared_detections is at most
\* total_detections, the length of the tool's finding list, and it is smaller
\* when the list holds one fingerprint twice.
C13_GroupsAtMostFindings ==
    Calculated =>
        \A i \in 1..Len(effOut.effectiveness) :
            LET metrics == effOut.effectiveness[i].metrics
                list == effIn[i].alerts
                repeated == \E a, b \in 1..Len(list) :
                               a # b /\ createFingerprint(list[a]) = createFingerprint(list[b])
            IN  /\ metrics.total_detections = Len(list)
                /\ metrics.unique_detections + metrics.shared_detections
                       <= metrics.total_detections
                /\ (repeated => metrics.unique_detections + metrics.shared_detections
                                    < metrics.total_detections)

\* a tool reports one fingerprint twice, and its groups are fewer than its
\* findings
C13_Witness ==
    /\ Calculated
    /\ \E i \in 1..Len(effOut.effectiveness) :
          LET metrics == effOut.effectiveness[i].metrics
              list == effIn[i].alerts
          IN  /\ Len(list) = 2
              /\ createFingerprint(list[1]) = createFingerprint(list[2])
              /\ metrics.unique_detections + metrics.shared_detections = 1

-----------------------------------------------------------------------------
(* What the claims about the report of compareRepository speak of *)

Compared == pc = "done" /\ report # NoReport

\* the unique groups of the report whose only detecting tool is toolName
UniqueGroupsOf(toolName) ==
    {g \in ToSet(report.detailed_unique) : ToSet(g.detectedBy) = {toolName}}

\* the overlap groups of the report whose detected_by contains toolName
SharedGroupsOf(toolName) ==
    {g \in ToSet(report.detailed_overlap) : toolName \in ToSet(g.detectedBy)}

RECURSIVE SumUniqueDetections(_)
SumUniqueDetections(effectiveness) ==
    IF Len(effectiveness) = 0 THEN 0
    ELSE effectiveness[1].metrics.unique_detections
             + SumUniqueDetections(Tail(effectiveness))

\* tool a reports one finding, tool b the same finding and one more; findings
\* are the same when findOverlap gives them the same fingerprint
TwoToolScenario(a, b) ==
    /\ Len(NormalizedInput) = 2
    /\ a # b
    /\ Len(NormalizedInput[a].alerts) = 1
    /\ Len(NormalizedInput[b].alerts) = 2
    /\ \E k \in 1..2 :
          /\ createFingerprint(NormalizedInput[b].alerts[k])
                 = createFingerprint(NormalizedInput[a].alerts[1])
          /\ createFingerprint(NormalizedInput[b].alerts[3 - k])
                 # createFingerprint(NormalizedInput[a].alerts[1])

ScenarioReport(a, b) ==
    /\ report.overlap.total_unique_issues = 2
    /\ report.overlap.common_findings = 1
    /\ report.overlap.unique_findings = 1
    /\ report.effectiveness[a].metrics.unique_detections = 0
    /\ report.effectiveness[a].metrics.shared_detections = 1
    /\ report.effectiveness[a].metrics.uniqueness_rate.hundredths = 0
    /\ report.effectiveness[b].metrics.unique_detections = 1
    /\ report.effectiveness[b].metrics.shared_detections = 1
    /\ report.effectiveness[b].metrics.uniqueness_rate.hundredths = 50 * 100

\* C14: unique_detections counts the unique groups whose only detecting tool
\* is the tool, shared_detections the overlap groups whose detected_by holds
\* the tool, the unique_detections of all tools add up to the number of unique
\* groups, and in the two-tool scenario the report is total 2, common 1,
\* unique 1, A 0 / 1 / rate 0 and B 1 / 1 / rate 50.00.
C14_DetectionCounts ==
    Compared =>
        /\ \A i \in 1..Len(report.effectiveness) :
              LET entry == report.effectiveness[i]
              IN  /\ entry.metrics.unique_detections
                         = Cardinality(UniqueGroupsOf(entry.tool))
                  /\ entry.metrics.shared_detections
                         = Cardinality(SharedGroupsOf(entry.tool))
        /\ SumUniqueDetections(report.effectiveness) = Len(report.detailed_unique)
        /\ \A a, b \in 1..Len(NormalizedInput) :
              TwoToolScenario(a, b) => ScenarioReport(a, b)

\* the two-tool scenario has been compared
C14_Witness ==
    /\ Compared
    /\ \E a, b \in 1..Len(NormalizedInput) :
          TwoToolScenario(a, b) /\ ScenarioReport(a, b)

\* C15: when no tool has a finding for the repository, compareRepository
\* returns a report with tools = [], the three overlap counts 0, and empty
\* effectiveness, by_severity, by_category, detailed_overlap and
\* detailed_unique.
C15_EmptyInputReport ==
    (Compared /\ alerts = <<>>) =>
        /\ report.tools = <<>>
        /\ report.overlap.common_findings = 0
        /\ report.overlap.unique_findings = 0
        /\ report.overlap.total_unique_issues = 0
        /\ report.effectiveness = <<>>
        /\ report.by_severity = <<>>
        /\ report.by_category = <<>>
        /\ report.detailed_overlap = <<>>
        /\ report.detailed_unique = <<>>

\* a repository without alerts has been compared
C15_Witness == Compared /\ alerts = <<>> /\ report.tools = <<>>

-----------------------------------------------------------------------------
(* parsers/*-parser.js, parseResult, parse and parseMultiple *)

\* String.prototype.startsWith
startsWith(str, prefix) ==
    Len(prefix) <= Len(str) /\ SubSeq(str, 1, Len(prefix)) = prefix

\* the positions at which pattern occurs in str
Occurrences(str, pattern) ==
    {i \in 1..(Len(str) - Len(pattern) + 1) : SubSeq(str, i, i + Len(pattern) - 1) = pattern}

\* str.replace(pattern, '') with a string pattern: the first occurrence,
\* wherever it is, is removed
replace(str, pattern) ==
    LET at == Occurrences(str, pattern)
    IN  IF at = {} THEN str
        ELSE LET i == CHOOSE j \in at : \A k \in at : j <= k
             IN  SubSeq(str, 1, i - 1) \o SubSeq(str, i + Len(pattern), Len(str))

\* component.replace(/.*:/, ''): the greedy match ends at the last colon
replaceThroughColon(component) ==
    LET at == {i \in 1..Len(component) : component[i] = ":"}
    IN  IF at = {} THEN component
        ELSE LET i == CHOOSE j \in at : \A k \in at : j >= k
             IN  SubSeq(component, i + 1, Len(component))

\* A raw result is a record of the sub-fields a parser reads, an absent one
\* being undefined:
\*   ruleId      check_id (Semgrep), ruleId (Snyk, ESLint), rule (SonarQube)
\*   severity    extra.severity, level, severity, severity
\*   message     extra.message, message.text, message, message
\*   path        path, locations[0].physicalLocation.artifactLocation.uri,
\*               component, the filePath of the file result
\*   line        start.line, region.startLine, line, line
\*   confidence  extra.metadata.confidence (Semgrep)
\*   type        type (SonarQube)
Finding(ruleId, severity, category, message, path, startLine, confidence) ==
    [rule_id |-> ruleId, severity |-> severity, category |-> category,
     message |-> message,
     location |-> [path |-> path, start_line |-> startLine],
     confidence |-> confidence]

SemgrepParseResult(result) ==
    LET severity == SemgrepNormalizeSeverity(result.severity)
        category == SemgrepExtractCategory(result.ruleId)
    IN  IF severity.threw \/ category.threw THEN Threw
        ELSE Returned(Finding(result.ruleId, severity.val, category.val,
                              OrElse(result.message, Str(s_Security_issue_detected)),
                              result.path,
                              OrElse(result.line, Null),
                              OrElse(result.confidence, Str(s_MEDIUM))))

SnykParseResult(result, repositoryPath) ==
    LET rule == OrElse(result.ruleId, Str(s_unknown))
        message == OrElse(result.message, Str(s_Security_issue_detected))
        level == OrElse(result.severity, Str(s_warning))
        filePath == OrElse(result.path, Str(<<>>))
        severity == SnykNormalizeSeverity(level)
        category == SnykExtractCategory(rule, message)
    IN  IF severity.threw \/ category.threw \/ ~IsString(filePath) THEN Threw
        ELSE Returned(Finding(rule, severity.val, category.val, message,
                              Str(replace(filePath.s, repositoryPath.s \o s_slash)),
                              OrElse(result.line, Null),
                              Str(s_HIGH)))

\* the issues drawn have no textRange, so issue.line || issue.textRange?.startLine
\* is issue.line || undefined
SonarQubeParseIssue(issue) ==
    LET rule == OrElse(issue.ruleId, Str(s_unknown))
        message == OrElse(issue.message, Str(s_Security_issue_detected))
        level == OrElse(issue.severity, Str(s_MAJOR))
        severity == SonarQubeNormalizeSeverity(level)
        category == SonarQubeExtractCategory(rule, message)
        path == IF IsNullish(issue.path) THEN Str(<<>>)
                ELSE OrElse(Str(replaceThroughColon(issue.path.s)), Str(<<>>))
    IN  IF severity.threw \/ category.threw THEN Threw
        ELSE Returned(Finding(rule, severity.val, category.val, message, path,
                              OrElse(OrElse(issue.line, Undef), Null),
                              IF issue.type = Str(s_VULNERABILITY)
                              THEN Str(s_HIGH) ELSE Str(s_MEDIUM)))

ESLintParseMessage(message, filePath) ==
    LET severity == ESLintNormalizeSeverity(message.severity, message.ruleId)
        category == ESLintExtractCategory(message.ruleId)
    IN  IF severity.threw \/ category.threw THEN Threw
        ELSE Returned(Finding(message.ruleId, severity.val, category.val,
                              message.message, filePath, message.line, Str(s_HIGH)))

\* rawResults.map(result => this.parseResult(...)): the first throw ends the map
RECURSIVE MapParseResult(_, _, _, _)
MapParseResult(tool, findings, rawResults, repositoryPath) ==
    IF Len(rawResults) = 0 THEN Returned(findings)
    ELSE LET finding == CASE tool = "Semgrep" -> SemgrepParseResult(rawResults[1])
                          [] tool = "Snyk Code" ->
                                SnykParseResult(rawResults[1], repositoryPath)
                          [] tool = "SonarQube" -> SonarQubeParseIssue(rawResults[1])
         IN  IF finding.threw THEN Threw
             ELSE MapParseResult(tool, Append(findings, finding.val),
                                 Tail(rawResults), repositoryPath)

\* fileResult.messages.forEach(message => findings.push(this.parseMessage(...)))
RECURSIVE PushMessages(_, _, _)
PushMessages(findings, messages, relativePath) ==
    IF Len(messages) = 0 THEN Returned(findings)
    ELSE LET finding == ESLintParseMessage(messages[1], relativePath)
         IN  IF finding.threw THEN Threw
             ELSE PushMessages(Append(findings, finding.val), Tail(messages), relativePath)

\* rawResults.forEach(fileResult => ...) of ESLintParser.parse
RECURSIVE PushFileResults(_, _, _)
PushFileResults(findings, rawResults, repositoryPath) ==
    IF Len(rawResults) = 0 THEN Returned(findings)
    ELSE IF ~IsString(rawResults[1].filePath) THEN Threw
    ELSE LET relativePath == Str(replace(rawResults[1].filePath.s,
                                         repositoryPath.s \o s_slash))
             pushed == PushMessages(findings, rawResults[1].messages, relativePath)
         IN  IF pushed.threw THEN Threw
             ELSE PushFileResults(pushed.val, Tail(rawResults), repositoryPath)

\* the object parse returns for a scan that did not succeed; it has no
\* tool_name, no repository and no stats
ParseFailure(scanOutput) ==
    [success |-> FALSE, error |-> scanOutput.error, findings |-> <<>>,
     tool_name |-> NoTool, repository |-> Undef, total_findings |-> Undef]

\* the object parse returns otherwise; of stats the model keeps total_findings
ParseSuccess(scanOutput, findings) ==
    [success |-> TRUE, error |-> Undef, findings |-> findings,
     tool_name |-> scanOutput.tool_name,
     repository |-> scanOutput.repository, total_findings |-> Num(Len(findings))]

\* raw_output stands for raw_output?.results || [] (Semgrep),
\* raw_output?.runs?.[0]?.results || [] (Snyk), raw_output?.issues || []
\* (SonarQube) and raw_output || [] (ESLint)
parse(tool, scanOutput) ==
    IF ~scanOutput.success THEN Returned(ParseFailure(scanOutput))
    ELSE LET findings ==
                 IF tool = "ESLint"
                 THEN PushFileResults(<<>>, scanOutput.raw_output,
                                      scanOutput.repository_path)
                 ELSE MapParseResult(tool, <<>>, scanOutput.raw_output,
                                     scanOutput.repository_path)
         IN  IF findings.threw THEN Threw
             ELSE Returned(ParseSuccess(scanOutput, findings.val))

\* scanOutputs.map(output => this.parse(output))
RECURSIVE MapParse(_, _, _)
MapParse(tool, results, scanOutputs) ==
    IF Len(scanOutputs) = 0 THEN Returned(results)
    ELSE LET result == parse(tool, scanOutputs[1])
         IN  IF result.threw THEN Threw
             ELSE MapParse(tool, Append(results, result.val), Tail(scanOutputs))

parseMultiple(tool, scanOutputs) == MapParse(tool, <<>>, scanOutputs)

-----------------------------------------------------------------------------
(* scanners: scan *)

\* What a scan meets outside the program:
\*   exists   fs.existsSync(repositoryPath)
\*   token    process.env.SONAR_TOKEN is set
\*   files    findJavaScriptFiles found a file (ESLint)
\*   exec     how the external command (for ESLint, lintFiles) ended: "exit 0",
\*            or an error that carries standard output or one that does not
\*   message  error.message of that error
\*   parses   JSON.parse accepts the output (for ESLint, the configuration)
\*   fetch    how the request of fetchResults ended (SonarQube)
\*   payload  the results in the parsed output
\* path.basename on a path without a trailing slash
basename(path) ==
    LET at == {i \in 1..Len(path) : path[i] = "/"}
    IN  IF at = {} THEN path
        ELSE LET i == CHOOSE j \in at : \A k \in at : j >= k
             IN  SubSeq(path, i + 1, Len(path))

ScanFailure(tool, repositoryPath, message) ==
    [tool_name |-> tool, repository |-> Str(basename(repositoryPath.s)),
     repository_path |-> repositoryPath,
     raw_output |-> <<>>, error |-> Str(message), success |-> FALSE]

ScanSuccess(tool, repositoryPath, results) ==
    [tool_name |-> tool, repository |-> Str(basename(repositoryPath.s)),
     repository_path |-> repositoryPath,
     raw_output |-> results, error |-> Undef, success |-> TRUE]

SemgrepScan(env, repositoryPath) ==
    IF ~env.exists
    THEN ScanFailure("Semgrep", repositoryPath, s_Repository_not_found \o repositoryPath.s)
    ELSE IF env.exec = "error without stdout"
    THEN ScanFailure("Semgrep", repositoryPath, env.message)
    ELSE IF ~env.parses
    THEN ScanFailure("Semgrep", repositoryPath, s_Unexpected_token)
    ELSE ScanSuccess("Semgrep", repositoryPath, env.payload)

SnykScan(env, repositoryPath) ==
    IF ~env.exists
    THEN ScanFailure("Snyk Code", repositoryPath, s_Repository_not_found \o repositoryPath.s)
    ELSE IF env.exec = "error without stdout"
    THEN IF includes(env.message, s_Not_authenticated)
         THEN ScanFailure("Snyk Code", repositoryPath, s_Snyk_not_authenticated)
         ELSE ScanFailure("Snyk Code", repositoryPath, env.message)
    ELSE IF ~env.parses
    THEN ScanFailure("Snyk Code", repositoryPath, s_Unexpected_token)
    ELSE ScanSuccess("Snyk Code", repositoryPath, env.payload)

\* response.ok false, or an exception in fetchResults: { issues: [] }
fetchResults(env) == IF env.fetch = "ok" THEN env.payload ELSE <<>>

SonarQubeScan(env, repositoryPath) ==
    IF ~env.exists
    THEN ScanFailure("SonarQube", repositoryPath, s_Repository_not_found \o repositoryPath.s)
    ELSE IF ~env.token
    THEN ScanFailure("SonarQube", repositoryPath, s_SONAR_TOKEN_not_set)
    ELSE IF env.exec = "error without stdout"
    THEN ScanFailure("SonarQube", repositoryPath, env.message)
    ELSE ScanSuccess("SonarQube", repositoryPath, fetchResults(env))

\* msg.ruleId && (msg.ruleId.startsWith('security/') ||
\*                msg.ruleId.startsWith('no-unsanitized/'))
IsSecurityMessage(msg) ==
    /\ Truthy(msg.ruleId)
    /\ IsString(msg.ruleId)
    /\ \/ startsWith(msg.ruleId.s, s_security_)
       \/ startsWith(msg.ruleId.s, s_no_unsanitized_)

HasMessages(result) == Len(result.messages) > 0

\* results.map(...messages.filter...).filter(result => result.messages.length > 0)
SecurityResults(results) ==
    SelectSeq([i \in 1..Len(results) |->
                  [filePath |-> results[i].filePath,
                   messages |-> SelectSeq(results[i].messages, IsSecurityMessage)]],
              HasMessages)

ESLintScan(env, repositoryPath) ==
    IF ~env.exists
    THEN ScanFailure("ESLint-Security", repositoryPath, s_Repository_not_found \o repositoryPath.s)
    ELSE IF ~env.parses
    THEN ScanFailure("ESLint-Security", repositoryPath, s_Unexpected_token)
    ELSE IF ~env.files
    THEN ScanSuccess("ESLint-Security", repositoryPath, <<>>)
    ELSE IF env.exec # "exit 0"
    THEN ScanFailure("ESLint-Security", repositoryPath, env.message)
    ELSE ScanSuccess("ESLint-Security", repositoryPath, SecurityResults(env.payload))

scan(tool, env, repositoryPath) ==
    CASE tool = "Semgrep" -> SemgrepScan(env, repositoryPath)
      [] tool = "Snyk Code" -> SnykScan(env, repositoryPath)
      [] tool = "SonarQube" -> SonarQubeScan(env, repositoryPath)
      [] tool = "ESLint" -> ESLintScan(env, repositoryPath)

-----------------------------------------------------------------------------
(* One tool: scanMultiple over repositories, then parseMultiple *)

MaxScans == 2

Parsers == {"Semgrep", "Snyk Code", "SonarQube", "ESLint"}

\* the repository handed to scan
RepositoryPath == Str(s__r)

\* a raw result with every sub-field, in the vocabulary of each tool
CompleteResult(tool) ==
    [ruleId |-> IF tool = "ESLint" THEN Str(s_security_detect_eval_with_expression)
                ELSE Str(s_xss),
     severity |-> CASE tool = "Semgrep" -> Str(s_ERROR)
                    [] tool = "Snyk Code" -> Str(s_error)
                    [] tool = "SonarQube" -> Str(s_CRITICAL)
                    [] tool = "ESLint" -> Num(2),
     message |-> Str(s_m),
     path |-> Str(s__r_a),
     line |-> Num(1),
     confidence |-> IF tool = "Semgrep" THEN Str(s_HIGH) ELSE Undef,
     type |-> IF tool = "SonarQube" THEN Str(s_VULNERABILITY) ELSE Undef]

\* raw results that lack one sub-field or all of them, or that name the file
\* in another way
RawResults(tool) ==
    LET c == CompleteResult(tool)
    IN  {c,
         [c EXCEPT !.ruleId = Undef],
         [c EXCEPT !.severity = Undef],
         [c EXCEPT !.message = Undef],
         [c EXCEPT !.line = Undef],
         [c EXCEPT !.confidence = Undef, !.type = Undef],
         [c EXCEPT !.ruleId = Undef, !.severity = Undef, !.message = Undef,
                   !.line = Undef, !.confidence = Undef, !.type = Undef],
         [c EXCEPT !.path = Str(s_a)],
         [c EXCEPT !.path = Str(s_x_r_a)]}
        \cup (IF tool = "ESLint" THEN {[c EXCEPT !.ruleId = Str(s_semi)]}
              ELSE {[c EXCEPT !.path = Undef]})
        \cup (IF tool = "SonarQube"
              THEN {[c EXCEPT !.path = Str(s_pca)], [c EXCEPT !.type = Str(s_CODE_SMELL)]}
              ELSE {})

\* the results in the output of one run: none, or one raw result; lintFiles
\* returns one entry per file with the messages of the file
Payloads(tool) ==
    {<<>>} \cup {IF tool = "ESLint"
                 THEN <<[filePath |-> r.path, messages |-> <<r>>]>>
                 ELSE <<r>> : r \in RawResults(tool)}

SmoothRun(payload) ==
    [exists |-> TRUE, token |-> TRUE, files |-> TRUE, exec |-> "exit 0",
     message |-> <<>>, parses |-> TRUE, fetch |-> "ok", payload |-> payload]

ScanEnvironments(tool) ==
    LET run == SmoothRun(IF tool = "ESLint"
                         THEN <<[filePath |-> CompleteResult(tool).path,
                                 messages |-> <<CompleteResult(tool)>>]>>
                         ELSE <<CompleteResult(tool)>>)
    IN  {SmoothRun(p) : p \in Payloads(tool)}
        \cup {[run EXCEPT !.exists = FALSE],
              [run EXCEPT !.token = FALSE],
              [run EXCEPT !.files = FALSE],
              [run EXCEPT !.exec = "error with stdout", !.message = s_Command_failed],
              [run EXCEPT !.exec = "error without stdout", !.message = s_Command_failed],
              [run EXCEPT !.exec = "error without stdout", !.message = s_Not_authenticated],
              [run EXCEPT !.parses = FALSE],
              [run EXCEPT !.fetch = "not ok"],
              [run EXCEPT !.fetch = "threw"]}

\* one turn of the loop of scanMultiple
Scan(env) ==
    /\ pc = "input"
    /\ Len(scanOut) < MaxScans
    /\ scanEnvs' = Append(scanEnvs, env)
    /\ scanOut' = Append(scanOut, scan(scanTool, env, RepositoryPath))
    /\ UNCHANGED <<pc, alerts, report, fpIn, fpOut, sevIn, sevOut, catIn, catOut,
                   effIn, effOut, scanTool, parseOut,
                 repositories, analyses, storeIn, storeOut, storeAt, comparedOn,
                   calls, props, mainRun>>

ParseMultiple ==
    /\ pc = "input"
    /\ parseOut' = parseMultiple(scanTool, scanOut)
    /\ pc' = "done"
    /\ UNCHANGED <<alerts, report, fpIn, fpOut, sevIn, sevOut, catIn, catOut,
                   effIn, effOut, scanTool, scanEnvs, scanOut,
                 repositories, analyses, storeIn, storeOut, storeAt, comparedOn,
                   calls, props, mainRun>>

InitScan ==
    /\ pc = "input"
    /\ scanTool \in Parsers
    /\ scanEnvs = <<>> /\ scanOut = <<>>
    /\ parseOut = Idle
    /\ repositories = Idle /\ analyses = Idle /\ storeIn = Idle
    /\ storeOut = Idle /\ storeAt = 0 /\ comparedOn = Idle
    /\ calls = Idle /\ props = Idle /\ mainRun = Idle
    /\ alerts = <<>> /\ report = NoReport
    /\ fpIn = Idle /\ fpOut = Idle
    /\ sevIn = Idle /\ sevOut = Idle
    /\ catIn = Idle /\ catOut = Idle
    /\ effIn = Idle /\ effOut = Idle

NextScan ==
    \/ \E env \in ScanEnvironments(scanTool) : Scan(env)
    \/ ParseMultiple

SpecScan == InitScan /\ [][NextScan]_vars

-----------------------------------------------------------------------------
(* What the claims about scanners and adapters speak of *)

Parsed == scanTool # NoTool /\ pc = "done"

\* the external scan did not produce results: the repository is missing, the
\* command or the library call ended with an error and no output, the output
\* or the configuration is not JSON, the token is not set, or the results
\* could not be fetched
ScanFailed(tool, env) ==
    \/ ~env.exists
    \/ tool = "SonarQube" /\ (~env.token \/ env.fetch # "ok")
    \/ tool # "ESLint" /\ env.exec = "error without stdout"
    \/ tool = "ESLint" /\ env.files /\ env.exec # "exit 0"
    \/ tool # "SonarQube" /\ ~env.parses

\* C16: a failed external scan gives a scan record with success = false and
\* the error message, and parse of that record returns success = false, that
\* message and no findings.
C16_FailedScanIsReported ==
    scanTool # NoTool =>
        \A i \in 1..Len(scanOut) :
            ScanFailed(scanTool, scanEnvs[i]) =>
                LET result == parse(scanTool, scanOut[i])
                IN  /\ ~scanOut[i].success
                    /\ IsString(scanOut[i].error)
                    /\ ~result.threw
                    /\ ~result.val.success
                    /\ result.val.error = scanOut[i].error
                    /\ result.val.findings = <<>>

\* C17: parseMultiple does not throw on the output of successful scans whose
\* results lack sub-fields, and returns one result per scan output, in order.
C17_AdaptersAreTotal ==
    Parsed =>
        /\ ~parseOut.threw
        /\ Len(parseOut.val) = Len(scanOut)
        /\ \A i \in 1..Len(scanOut) : parseOut.val[i].success = scanOut[i].success

\* the scan outputs that carry a raw result, and that raw result
WithResult == {i \in 1..Len(scanOut) : scanOut[i].success /\ Len(scanOut[i].raw_output) = 1}

RawResultOf(i) ==
    IF scanTool = "ESLint" THEN scanOut[i].raw_output[1].messages[1]
    ELSE scanOut[i].raw_output[1]

FindingOf(i) == parseOut.val[i].findings[1]

\* C18: a raw result without a line gives start_line = null, one without rule
\* id and message gives category = Other, one without a confidence gives
\* confidence = MEDIUM.
C18_DocumentedDefaults ==
    (Parsed /\ ~parseOut.threw) =>
        \A i \in WithResult :
            /\ IsNullish(RawResultOf(i).line) => FindingOf(i).location.start_line = Null
            /\ (IsNullish(RawResultOf(i).ruleId) /\ IsNullish(RawResultOf(i).message))
                   => FindingOf(i).category = Str(s_Other)
            /\ (IsNullish(RawResultOf(i).confidence) /\ IsNullish(RawResultOf(i).type))
                   => FindingOf(i).confidence = Str(s_MEDIUM)

\* a removal that looks for the pattern at the start of the string alone
replaceLeading(str, pattern) ==
    IF startsWith(str, pattern) THEN SubSeq(str, Len(pattern) + 1, Len(str)) ELSE str

\* the tools whose raw results name the file by its path
PathTools == {"Semgrep", "Snyk Code", "ESLint"}

\* C19: location.path is the reported path without a leading repository
\* root, and the reported path itself when it does not start with the root.
C19_PathIsRelative ==
    (Parsed /\ ~parseOut.threw /\ scanTool \in PathTools) =>
        \A i \in WithResult :
            IsString(RawResultOf(i).path) =>
                FindingOf(i).location.path
                    = Str(replaceLeading(RawResultOf(i).path.s,
                                         scanOut[i].repository_path.s \o s_slash))

-----------------------------------------------------------------------------
(* What the claim about the category breakdown speaks of *)

\* the categories that some tool of the report has a count for
ReportedCategories ==
    UNION {{report.by_category[i].counts[k].category :
               k \in 1..Len(report.by_category[i].counts)} :
           i \in 1..Len(report.by_category)}

RECURSIVE SumCounts(_)
SumCounts(counts) ==
    IF Len(counts) = 0 THEN 0 ELSE counts[1].count + SumCounts(Tail(counts))

\* C20: by_category holds, for every tool, a count for every category of the
\* report, 0 when the tool has no finding of it, and the counts of a tool add
\* up to the number of its findings.
C20_ZeroCountsPresent ==
    Compared =>
        \A i \in 1..Len(report.by_category) :
            LET counts == report.by_category[i].counts
                list == NormalizedInput[i].alerts
            IN  /\ report.by_category[i].tool = NormalizedInput[i].tool
                /\ SumCounts(counts) = Len(list)
                /\ \A k \in 1..Len(counts) :
                      counts[k].count
                          = Cardinality({a \in 1..Len(list) :
                                            OrElse(list[a].category, Str(s_Other))
                                                = counts[k].category})
                /\ \A c \in ReportedCategories :
                      \E k \in 1..Len(counts) : counts[k].category = c

-----------------------------------------------------------------------------
(* What the claim about the fingerprint of a normalized record speaks of *)

\* C26: in every group of the report the fingerprint field of the
\* representative finding equals the fingerprint under which findOverlap
\* grouped it.
C26_RecordFingerprintIsGroupKey ==
    Compared =>
        \A g \in GroupsOf(ReportedOverlap) : g.alert.fingerprint = g.fingerprint

-----------------------------------------------------------------------------
(* parsers/normalizer.js, normalizeAlert and normalizeAnalysis *)

CodeQLSeverityMap ==
    << <<s_critical, s_error>>, <<s_high, s_error>>, <<s_medium, s_warning>>,
       <<s_low, s_note>> >>

\* severityMap[severity] || 'warning'
mapSeverityToCodeQL(severity) == OrElse(Lookup(CodeQLSeverityMap, severity), Str(s_warning))

normalizeAlert(finding, toolName) ==
    [tool_name |-> toolName,
     rule_id |-> finding.rule_id,
     severity |-> mapSeverityToCodeQL(finding.severity),
     security_severity |-> finding.severity,
     location |-> [path |-> finding.location.path,
                   start_line |-> finding.location.start_line],
     message |-> finding.message,
     category |-> OrElse(finding.category, Str(s_Other))]

\* results_count: parsedResult.stats?.total_findings || 0
normalizeAnalysis(parsedResult) ==
    [tool_name |-> parsedResult.tool_name,
     repository |-> parsedResult.repository,
     results_count |-> OrElse(parsedResult.total_findings, Num(0)),
     alerts |-> [k \in 1..Len(parsedResult.findings) |->
                    normalizeAlert(parsedResult.findings[k], parsedResult.tool_name)]]

normalizeMultiple(parsedResults) ==
    [i \in 1..Len(parsedResults) |-> normalizeAnalysis(parsedResults[i])]

-----------------------------------------------------------------------------
(* database/storage.js, storeAnalysis and storeMultiple *)

\* The database as storeAnalysis meets it: a record with the collections
\* repositories, analyses and alerts.
\* Repository.findOne({ name }) and, when nothing is found, Repository.create;
\* created tells whether the create of a record succeeds
getOrCreateRepository(db, repoName, created) ==
    IF \E i \in 1..Len(db.repositories) : db.repositories[i] = repoName
    THEN [threw |-> FALSE, db |-> db]
    ELSE IF created
    THEN [threw |-> FALSE,
          db |-> [db EXCEPT !.repositories = Append(@, repoName)]]
    ELSE [threw |-> TRUE, db |-> db]

\* Alert.create of storeAnalysis: the document has no category; tool_name is
\* the one of the analysis the alert points to
CreatedAlert(toolName, alert) ==
    StoredAlert(toolName, [rule_id |-> alert.rule_id,
                           security_severity |-> alert.security_severity,
                           category |-> Undef,
                           location |-> alert.location])

CreatedAlerts(toolName, list) ==
    [k \in 1..Len(list) |-> CreatedAlert(toolName, list[k])]

\* storeAnalysis; failAt names the database call that fails, if one does:
\* the repository lookup or creation, Analysis.create, the first Alert.create
\* or repository.save. The template of analysis_id calls toLowerCase on
\* tool_name before Analysis.create is reached. error is error.message.
storeAnalysis(db, normalizedResult, failAt) ==
    LET repository == getOrCreateRepository(db, normalizedResult.repository,
                                            failAt # "repository")
        analysis == [tool_name |-> normalizedResult.tool_name,
                     repository |-> normalizedResult.repository]
        withAnalysis == [repository.db EXCEPT !.analyses = Append(@, analysis)]
        withAlerts == [withAnalysis EXCEPT
                          !.alerts = @ \o CreatedAlerts(normalizedResult.tool_name,
                                                        normalizedResult.alerts)]
    IN  IF repository.threw
        THEN [threw |-> TRUE, db |-> db, alertCount |-> 0, error |-> Str(s_db)]
        ELSE IF normalizedResult.tool_name = NoTool
        THEN [threw |-> TRUE, db |-> repository.db, alertCount |-> 0,
              error |-> Str(s_TypeError)]
        ELSE IF failAt = "analysis"
        THEN [threw |-> TRUE, db |-> repository.db, alertCount |-> 0,
              error |-> Str(s_db)]
        ELSE IF failAt = "alert" /\ normalizedResult.alerts # <<>>
        THEN [threw |-> TRUE, db |-> withAnalysis, alertCount |-> 0,
              error |-> Str(s_db)]
        ELSE IF failAt = "save"
        THEN [threw |-> TRUE, db |-> withAlerts, alertCount |-> 0,
              error |-> Str(s_db)]
        ELSE [threw |-> FALSE, db |-> withAlerts,
              alertCount |-> Len(normalizedResult.alerts), error |-> Undef]

\* The entries of the list storeMultiple returns, with every key present: a
\* key the entry does not have is undefined, a count it does not have is 0.
StoredEntry(normalizedResult, stored) ==
    [success |-> TRUE, repository |-> Undef, tool_name |-> normalizedResult.tool_name,
     alertCount |-> stored.alertCount, error |-> Undef]

FailedEntry(normalizedResult, stored) ==
    [success |-> FALSE, repository |-> normalizedResult.repository, tool_name |-> NoTool,
     alertCount |-> 0, error |-> stored.error]

\* a loop body whose catch pushes nothing
PushStoreResultSilent(results, normalizedResult, stored) ==
    IF stored.threw THEN results
    ELSE Append(results, StoredEntry(normalizedResult, stored))

\* the body of the loop of storeMultiple, after storeAnalysis has ended
PushStoreResult(results, normalizedResult, stored) ==
    IF stored.threw
    THEN Append(results, FailedEntry(normalizedResult, stored))
    ELSE Append(results, StoredEntry(normalizedResult, stored))

\* a comparison that writes the category it extracted back to the alerts
AlertsAfterCompareTagged(found) ==
    [k \in 1..Len(found) |->
        [found[k] EXCEPT !.category = AnalyzerExtractCategory(found[k]).val]]

\* the Alert collection after compareRepository: getToolComparison reads with
\* Alert.find, the analysis builds new objects, nothing is written
AlertsAfterCompare(found) == found

-----------------------------------------------------------------------------
(* storeMultiple over a list of normalized results, and comparisons *)

MaxAnalyses == 2

StoreTools == {"Semgrep", "Snyk Code"}

\* runs whose results are stored: no finding, a finding both tools name alike,
\* a finding without a line, and a scan that failed
StoreEnvironments(tool) ==
    {SmoothRun(<<>>),
     SmoothRun(<<[CompleteResult(tool) EXCEPT !.path = Str(s_a)]>>),
     SmoothRun(<<[CompleteResult(tool) EXCEPT !.line = Undef]>>),
     [SmoothRun(<<>>) EXCEPT !.exists = FALSE]}

\* what normalizeMultiple makes of the parsed results of those runs
NormalizedResults ==
    {normalizeAnalysis(parse(tool, scan(tool, env, RepositoryPath)).val) :
        tool \in StoreTools, env \in UNION {StoreEnvironments(t) : t \in StoreTools}}

\* the database call that fails during one storeAnalysis, if one does
DatabaseFailures == {"none", "repository", "analysis", "alert", "save"}

Database == [repositories |-> repositories, analyses |-> analyses, alerts |-> alerts]

\* one turn of the loop of storeMultiple
StoreAnalysis(failAt) ==
    /\ pc = "store"
    /\ storeAt < Len(storeIn)
    /\ LET stored == storeAnalysis(Database, storeIn[storeAt + 1], failAt)
       IN  /\ repositories' = stored.db.repositories
           /\ analyses' = stored.db.analyses
           /\ alerts' = stored.db.alerts
           /\ storeOut' = PushStoreResult(storeOut, storeIn[storeAt + 1], stored)
    /\ storeAt' = storeAt + 1
    /\ UNCHANGED <<pc, report, fpIn, fpOut, sevIn, sevOut, catIn, catOut, effIn, effOut,
                   scanTool, scanEnvs, scanOut, parseOut, storeIn, comparedOn,
                   calls, props, mainRun>>

\* A comparison is requested by another caller (the command line of
\* analyzer.js, the integration test), whatever the run that stores is doing.
ComparisonTimes == {"initialize", "semgrep", "snyk", "store", "summary", "finally"}

\* a comparison request, at any time
Compare ==
    /\ pc \in ComparisonTimes
    /\ report' = compareRepository(alerts)
    /\ alerts' = AlertsAfterCompare(alerts)
    /\ comparedOn' = alerts
    /\ UNCHANGED <<pc, fpIn, fpOut, sevIn, sevOut, catIn, catOut, effIn, effOut,
                   scanTool, scanEnvs, scanOut, parseOut,
                   repositories, analyses, storeIn, storeOut, storeAt,
                   calls, props, mainRun>>

InitStore ==
    /\ pc = "store"
    /\ storeIn \in UNION {[1..k -> NormalizedResults] : k \in 0..MaxAnalyses}
    /\ storeOut = <<>> /\ storeAt = 0
    /\ repositories = <<>> /\ analyses = <<>> /\ alerts = <<>>
    /\ report = NoReport /\ comparedOn = Idle
    /\ calls = Idle /\ props = Idle /\ mainRun = Idle
    /\ fpIn = Idle /\ fpOut = Idle
    /\ sevIn = Idle /\ sevOut = Idle
    /\ catIn = Idle /\ catOut = Idle
    /\ effIn = Idle /\ effOut = Idle
    /\ scanTool = NoTool /\ scanEnvs = Idle /\ scanOut = Idle /\ parseOut = Idle

NextStore ==
    \/ \E failAt \in DatabaseFailures : StoreAnalysis(failAt)
    \/ Compare

SpecStore == InitStore /\ [][NextStore]_vars

-----------------------------------------------------------------------------
(* Claims about storeMultiple and the comparisons that follow it *)

\* C27: storeMultiple has pushed exactly one entry for every analysis it has
\* taken, in the order of the input; the entry of an analysis that could not
\* be stored (such as the record of a failed scan, which has no tool_name) is
\* {success: false, repository, error}, and the entries after it are still made.
C27_OneEntryPerAnalysis ==
    pc = "store" =>
        /\ Len(storeOut) = storeAt
        /\ \A i \in 1..storeAt :
              /\ storeIn[i].tool_name = NoTool => ~storeOut[i].success
              /\ ~storeOut[i].success =>
                    /\ storeOut[i].repository = storeIn[i].repository
                    /\ storeOut[i].error # Undef
              /\ storeOut[i].success =>
                    /\ storeOut[i].tool_name = storeIn[i].tool_name
                    /\ storeOut[i].alertCount = Len(storeIn[i].alerts)

\* the record of a failed scan was refused and the analysis after it stored
C27_Witness ==
    /\ pc = "store" /\ storeAt = 2 /\ Len(storeOut) = 2
    /\ storeIn[1].tool_name = NoTool /\ ~storeOut[1].success
    /\ storeOut[2].success /\ storeOut[2].alertCount = 1

\* a comparison is up to date when nothing was stored after it
UpToDate == pc = "store" /\ report # NoReport /\ comparedOn = alerts

\* C21: every tool of which an analysis is stored is listed in the tools of the
\* comparison report, also when it found nothing, and a tool that found
\* nothing contributes no group.
C21_ToolsWithoutFindingsListed ==
    UpToDate =>
        \A k \in 1..Len(analyses) :
            /\ analyses[k].tool_name \in ToSet(report.tools)
            /\ \A g \in GroupsOf(ReportedOverlap) :
                  analyses[k].tool_name \in ToSet(g.detectedBy) =>
                      \E a \in ToSet(alerts) : a.tool_name = analyses[k].tool_name

\* a step that is a comparison request: the loop of storeMultiple stands still
ComparisonStep == pc = "store" /\ storeAt' = storeAt

OverlapCounts(comparison) ==
    <<comparison.overlap.common_findings,
      comparison.overlap.unique_findings,
      [i \in 1..Len(comparison.effectiveness) |->
          <<comparison.effectiveness[i].tool,
            comparison.effectiveness[i].metrics.unique_detections,
            comparison.effectiveness[i].metrics.shared_detections>>]>>

\* storeAnalysis has stored an analysis equal to one stored before it
RepeatedStore ==
    /\ pc = "store" /\ storeAt' = storeAt + 1
    /\ storeOut'[storeAt'].success
    /\ \E j \in 1..storeAt : storeOut[j].success /\ storeIn[j] = storeIn[storeAt']

\* C25: storing a second analysis by the same tool with the same findings for
\* the same repository leaves common_findings, unique_findings and every
\* tool's unique_detections and shared_detections as they were.
C25_RepeatedStoreKeepsCounts ==
    [][RepeatedStore =>
          OverlapCounts(compareRepository(alerts')) =
              OverlapCounts(compareRepository(alerts))]_vars

-----------------------------------------------------------------------------
(* getOrCreateRepository called by several storeAnalysis calls at a time.
   The call awaits Repository.findOne and, when nothing was found,
   Repository.create; other calls run between the two. *)

MaxCallers == 3

Callers == 1..MaxCallers

RepositoryNames == {Str(s_r), Str(s_m)}

NoCall == [at |-> "idle", name |-> Undef, repo |-> 0]

\* Repository.findOne({ name }): the position of the first record of that
\* name, 0 when there is none
findOne(collection, name) ==
    IF \E i \in 1..Len(collection) : collection[i] = name
    THEN CHOOSE i \in 1..Len(collection) :
             /\ collection[i] = name
             /\ \A k \in 1..(i - 1) : collection[k] # name
    ELSE 0

\* storeAnalysis calls getOrCreateRepository(normalizedResult.repository, _)
CallGetOrCreateRepository(c, name) ==
    /\ pc = "repository"
    /\ calls[c].at = "idle"
    /\ calls' = [calls EXCEPT ![c] = [at |-> "findOne", name |-> name, repo |-> 0]]
    /\ UNCHANGED <<pc, alerts, report, fpIn, fpOut, sevIn, sevOut, catIn, catOut,
                   effIn, effOut, scanTool, scanEnvs, scanOut, parseOut,
                   repositories, analyses, storeIn, storeOut, storeAt, comparedOn,
                   props, mainRun>>

\* let repo = await Repository.findOne({ name: repoName }); a record that was
\* found is returned
FindOne(c) ==
    /\ pc = "repository"
    /\ calls[c].at = "findOne"
    /\ LET repo == findOne(repositories, calls[c].name)
       IN  calls' = [calls EXCEPT ![c] = IF repo # 0
                                         THEN [@ EXCEPT !.at = "returned", !.repo = repo]
                                         ELSE [@ EXCEPT !.at = "create"]]
    /\ UNCHANGED <<pc, alerts, report, fpIn, fpOut, sevIn, sevOut, catIn, catOut,
                   effIn, effOut, scanTool, scanEnvs, scanOut, parseOut,
                   repositories, analyses, storeIn, storeOut, storeAt, comparedOn,
                   props, mainRun>>

\* repo = await Repository.create({ name: repoName, ... }); return repo.
\* The Repository schema is not part of the sources: with a unique index on
\* name the create of a second record of a name throws, without one it inserts.
CreateRepository(c, uniqueIndex) ==
    /\ pc = "repository"
    /\ calls[c].at = "create"
    /\ IF uniqueIndex /\ findOne(repositories, calls[c].name) # 0
       THEN /\ calls' = [calls EXCEPT ![c] = [@ EXCEPT !.at = "threw"]]
            /\ UNCHANGED repositories
       ELSE /\ repositories' = Append(repositories, calls[c].name)
            /\ calls' = [calls EXCEPT ![c] = [@ EXCEPT !.at = "returned",
                                                       !.repo = Len(repositories) + 1]]
    /\ UNCHANGED <<pc, alerts, report, fpIn, fpOut, sevIn, sevOut, catIn, catOut,
                   effIn, effOut, scanTool, scanEnvs, scanOut, parseOut,
                   analyses, storeIn, storeOut, storeAt, comparedOn,
                   props, mainRun>>

InitRepository ==
    /\ pc = "repository"
    /\ calls = [c \in Callers |-> NoCall]
    /\ repositories = <<>> /\ analyses = <<>> /\ alerts = <<>>
    /\ storeIn = Idle /\ storeOut = Idle /\ storeAt = 0
    /\ report = NoReport /\ comparedOn = Idle
    /\ props = Idle /\ mainRun = Idle
    /\ fpIn = Idle /\ fpOut = Idle
    /\ sevIn = Idle /\ sevOut = Idle
    /\ catIn = Idle /\ catOut = Idle
    /\ effIn = Idle /\ effOut = Idle
    /\ scanTool = NoTool /\ scanEnvs = Idle /\ scanOut = Idle /\ parseOut = Idle

NextRepository ==
    \/ \E c \in Callers, name \in RepositoryNames : CallGetOrCreateRepository(c, name)
    \/ \E c \in Callers : FindOne(c)
    \/ \E c \in Callers, uniqueIndex \in BOOLEAN : CreateRepository(c, uniqueIndex)

SpecRepository == InitRepository /\ [][NextRepository]_vars

\* C28: after any interleaving of getOrCreateRepository calls the store holds
\* at most one Repository record per name, and each call that has ended
\* returned the record of the name it asked for.
C28_OneRepositoryPerName ==
    pc = "repository" =>
        /\ \A i, k \in 1..Len(repositories) :
              repositories[i] = repositories[k] => i = k
        /\ \A c \in Callers :
              /\ calls[c].at # "threw"
              /\ calls[c].at = "returned" =>
                    repositories[calls[c].repo] = calls[c].name

-----------------------------------------------------------------------------
(* SonarQubeScanner.scan and the file sonar-project.properties of the
   repository it scans *)

MaxSonarScans == 2

\* the file before a scan: absent, or present with the content of its owner
PropertiesStates == {"absent", "original"}

\* fs.writeFileSync(propsPath, propsContent) replaces whatever is there
writeFileSync(state) == "generated"

\* fs.unlinkSync(propsPath)
unlinkSync(state) == "absent"

\* The file when scan returns. An error before writeFileSync leaves it alone;
\* after it the file is unlinked, in the catch of execSync when the error has
\* no standard output and after the try otherwise.
PropertiesAfterScan(env, before) ==
    IF ~env.exists \/ ~env.token THEN before
    ELSE unlinkSync(writeFileSync(before))

SonarScan(env) ==
    /\ pc = "sonar"
    /\ Len(scanOut) < MaxSonarScans
    /\ scanEnvs' = Append(scanEnvs, env)
    /\ scanOut' = Append(scanOut, SonarQubeScan(env, RepositoryPath))
    /\ props' = [before |-> props.now, now |-> PropertiesAfterScan(env, props.now)]
    /\ UNCHANGED <<pc, alerts, report, fpIn, fpOut, sevIn, sevOut, catIn, catOut,
                   effIn, effOut, scanTool, parseOut,
                   repositories, analyses, storeIn, storeOut, storeAt, comparedOn,
                   calls, mainRun>>

InitSonarScan ==
    /\ pc = "sonar"
    /\ \E state \in PropertiesStates : props = [before |-> state, now |-> state]
    /\ scanTool = "SonarQube" /\ scanEnvs = <<>> /\ scanOut = <<>> /\ parseOut = Idle
    /\ repositories = Idle /\ analyses = Idle /\ alerts = <<>>
    /\ storeIn = Idle /\ storeOut = Idle /\ storeAt = 0
    /\ report = NoReport /\ comparedOn = Idle
    /\ calls = Idle /\ mainRun = Idle
    /\ fpIn = Idle /\ fpOut = Idle
    /\ sevIn = Idle /\ sevOut = Idle
    /\ catIn = Idle /\ catOut = Idle
    /\ effIn = Idle /\ effOut = Idle

NextSonarScan == \E env \in ScanEnvironments("SonarQube") : SonarScan(env)

SpecSonarScan == InitSonarScan /\ [][NextSonarScan]_vars

\* C29: when scan has returned, sonar-project.properties is as it was before
\* the call: absent if it was absent, present with its original content if it
\* existed, on every path through scan.
C29_PropertiesFileRestored ==
    (pc = "sonar" /\ scanOut # <<>>) => props.now = props.before

-----------------------------------------------------------------------------
(* index.js: main, with initialize, scanAll and cleanup of MultiToolScanner *)

MaxRepos == 1

\* TARGET_REPOS; main exits before it creates the scanner when the list is empty
RepositoryPaths == {Str(s__r), Str(s__r_a)}

\* what a scan of main meets: a finding, a repository that is not there, and
\* a result that lacks its rule id
MainEnvironments(tool) ==
    {SmoothRun(<<[CompleteResult(tool) EXCEPT !.path = Str(s_a)]>>),
     [SmoothRun(<<>>) EXCEPT !.exists = FALSE],
     SmoothRun(<<[CompleteResult(tool) EXCEPT !.ruleId = Undef]>>)}

\* await scanner.initialize(): without MONGODB_URI there is no storage; with
\* it this.storage is assigned and connect() resolves or throws
Initialize(outcome) ==
    /\ pc = "initialize"
    /\ mainRun' = [mainRun EXCEPT
                      !.storage = CASE outcome = "no uri" -> "none"
                                    [] outcome = "connected" -> "connected"
                                    [] outcome = "connect threw" -> "created",
                      !.scanAll = IF outcome = "connect threw" THEN @ ELSE "running"]
    /\ pc' = IF outcome = "connect threw" THEN "catch" ELSE "semgrep"
    /\ UNCHANGED <<alerts, report, fpIn, fpOut, sevIn, sevOut, catIn, catOut,
                   effIn, effOut, scanTool, scanEnvs, scanOut, parseOut,
                   repositories, analyses, storeIn, storeOut, storeAt, comparedOn,
                   calls, props>>

\* one turn of the loop of scanMultiple, of the Semgrep or the Snyk scanner
ScanNext(tool, env) ==
    /\ pc = (IF tool = "Semgrep" THEN "semgrep" ELSE "snyk")
    /\ Len(scanOut) < Len(mainRun.targetRepos)
    /\ scanOut' = Append(scanOut, scan(tool, env, mainRun.targetRepos[Len(scanOut) + 1]))
    /\ UNCHANGED <<pc, alerts, report, fpIn, fpOut, sevIn, sevOut, catIn, catOut,
                   effIn, effOut, scanTool, scanEnvs, parseOut,
                   repositories, analyses, storeIn, storeOut, storeAt, comparedOn,
                   calls, props, mainRun>>

\* scanMultiple has returned: semgrepParser.parseMultiple(semgrepResults); a
\* throw leaves scanAll and reaches the catch of main
ParseSemgrep ==
    /\ pc = "semgrep"
    /\ Len(scanOut) = Len(mainRun.targetRepos)
    /\ LET parsed == parseMultiple("Semgrep", scanOut)
       IN  IF parsed.threw
           THEN /\ mainRun' = [mainRun EXCEPT !.scanAll = "threw"]
                /\ pc' = "catch"
           ELSE /\ mainRun' = [mainRun EXCEPT !.semgrep = parsed.val]
                /\ pc' = "snyk"
    /\ scanOut' = <<>>
    /\ UNCHANGED <<alerts, report, fpIn, fpOut, sevIn, sevOut, catIn, catOut,
                   effIn, effOut, scanTool, scanEnvs, parseOut,
                   repositories, analyses, storeIn, storeOut, storeAt, comparedOn,
                   calls, props>>

\* snykParser.parseMultiple(snykResults), then normalizeMultiple of both lists;
\* without storage scanAll returns here
ParseSnyk ==
    /\ pc = "snyk"
    /\ Len(scanOut) = Len(mainRun.targetRepos)
    /\ LET parsed == parseMultiple("Snyk Code", scanOut)
       IN  IF parsed.threw
           THEN /\ mainRun' = [mainRun EXCEPT !.scanAll = "threw"]
                /\ pc' = "catch"
                /\ UNCHANGED storeIn
           ELSE /\ mainRun' = [mainRun EXCEPT
                                  !.snyk = parsed.val,
                                  !.scanAll = IF mainRun.storage = "connected"
                                              THEN @ ELSE "returned"]
                /\ storeIn' = normalizeMultiple(mainRun.semgrep)
                                  \o normalizeMultiple(parsed.val)
                /\ pc' = IF mainRun.storage = "connected" THEN "store" ELSE "summary"
    /\ scanOut' = <<>>
    /\ UNCHANGED <<alerts, report, fpIn, fpOut, sevIn, sevOut, catIn, catOut,
                   effIn, effOut, scanTool, scanEnvs, parseOut,
                   repositories, analyses, storeOut, storeAt, comparedOn,
                   calls, props>>

\* storeMultiple has returned, and scanAll with it
ReturnStored ==
    /\ pc = "store"
    /\ storeAt = Len(storeIn)
    /\ mainRun' = [mainRun EXCEPT !.scanAll = "returned"]
    /\ pc' = "summary"
    /\ UNCHANGED <<alerts, report, fpIn, fpOut, sevIn, sevOut, catIn, catOut,
                   effIn, effOut, scanTool, scanEnvs, scanOut, parseOut,
                   repositories, analyses, storeIn, storeOut, storeAt, comparedOn,
                   calls, props>>

\* scanner.printSummary(results): reads the results; the try block ends
PrintSummary ==
    /\ pc = "summary"
    /\ pc' = "finally"
    /\ UNCHANGED <<alerts, report, fpIn, fpOut, sevIn, sevOut, catIn, catOut,
                   effIn, effOut, scanTool, scanEnvs, scanOut, parseOut,
                   repositories, analyses, storeIn, storeOut, storeAt, comparedOn,
                   calls, props, mainRun>>

\* catch (error) { console.error(...); process.exit(1); }: the process ends
\* inside the catch block, the finally block is not reached
Exit ==
    /\ pc = "catch"
    /\ pc' = "exited"
    /\ UNCHANGED <<alerts, report, fpIn, fpOut, sevIn, sevOut, catIn, catOut,
                   effIn, effOut, scanTool, scanEnvs, scanOut, parseOut,
                   repositories, analyses, storeIn, storeOut, storeAt, comparedOn,
                   calls, props, mainRun>>

\* finally { await scanner.cleanup(); }: disconnect when there is a storage
Cleanup ==
    /\ pc = "finally"
    /\ mainRun' = [mainRun EXCEPT !.cleanup = TRUE,
                                  !.storage = IF @ = "none" THEN @ ELSE "released"]
    /\ pc' = "ended"
    /\ UNCHANGED <<alerts, report, fpIn, fpOut, sevIn, sevOut, catIn, catOut,
                   effIn, effOut, scanTool, scanEnvs, scanOut, parseOut,
                   repositories, analyses, storeIn, storeOut, storeAt, comparedOn,
                   calls, props>>

InitMain ==
    /\ pc = "initialize"
    /\ \E targetRepos \in UNION {[1..n -> RepositoryPaths] : n \in 1..MaxRepos} :
          mainRun = [targetRepos |-> targetRepos, storage |-> "none",
                     scanAll |-> "not called", semgrep |-> <<>>, snyk |-> <<>>,
                     cleanup |-> FALSE]
    /\ scanOut = <<>> /\ scanEnvs = Idle /\ scanTool = NoTool /\ parseOut = Idle
    /\ storeIn = <<>> /\ storeOut = <<>> /\ storeAt = 0
    /\ repositories = <<>> /\ analyses = <<>> /\ alerts = <<>>
    /\ report = NoReport /\ comparedOn = Idle
    /\ calls = Idle /\ props = Idle
    /\ fpIn = Idle /\ fpOut = Idle
    /\ sevIn = Idle /\ sevOut = Idle
    /\ catIn = Idle /\ catOut = Idle
    /\ effIn = Idle /\ effOut = Idle

NextMain ==
    \/ \E outcome \in {"no uri", "connected", "connect threw"} : Initialize(outcome)
    \/ \E tool \in StoreTools : \E env \in MainEnvironments(tool) : ScanNext(tool, env)
    \/ ParseSemgrep
    \/ ParseSnyk
    \/ \E failAt \in {"none", "save"} : StoreAnalysis(failAt)
    \/ ReturnStored
    \/ PrintSummary
    \/ Exit
    \/ Cleanup
    \/ Compare

SpecMain == InitMain /\ [][NextMain]_vars

-----------------------------------------------------------------------------
(* Claims about scanAll and main *)

\* the parsed result at position i is the one of the repository at position i
InInputOrder(parsed) ==
    \A i \in 1..Len(parsed) :
        parsed[i].success =>
            parsed[i].repository = Str(basename(mainRun.targetRepos[i].s))

\* C22: scanAll over n repository paths returns, whether the scans succeeded
\* or failed, with one parsed Semgrep result and one parsed Snyk result per
\* path, in input order, and a normalized list of length 2n.
C22_OneResultPerPathAndTool ==
    pc \in {"catch", "exited", "store", "summary", "finally", "ended"} =>
        /\ mainRun.scanAll # "threw"
        /\ mainRun.scanAll = "returned" =>
              /\ Len(mainRun.semgrep) = Len(mainRun.targetRepos)
              /\ Len(mainRun.snyk) = Len(mainRun.targetRepos)
              /\ InInputOrder(mainRun.semgrep)
              /\ InInputOrder(mainRun.snyk)
              /\ Len(storeIn) = Len(mainRun.semgrep) + Len(mainRun.snyk)

\* storeMultiple has stored the findings of one tool and has yet to store the
\* findings of another tool of the same batch
PartlyStored ==
    /\ pc = "store"
    /\ \E i \in 1..storeAt, k \in (storeAt + 1)..Len(storeIn) :
          /\ storeOut[i].success
          /\ storeIn[i].alerts # <<>>
          /\ storeIn[k].alerts # <<>>
          /\ storeIn[k].tool_name \notin {NoTool, storeIn[i].tool_name}

\* C23: storage begins only after both tools have been scanned and parsed for
\* all repositories, and no comparison observes the store while some tool's
\* findings of the batch are stored and another tool's are not yet.
C23_ComparisonSeesWholeBatch ==
    pc \in ComparisonTimes \cup {"catch", "exited", "ended"} =>
        /\ (storeAt > 0 \/ analyses # <<>> \/ alerts # <<>>) =>
              /\ Len(mainRun.semgrep) = Len(mainRun.targetRepos)
              /\ Len(mainRun.snyk) = Len(mainRun.targetRepos)
        /\ ~(PartlyStored /\ report # NoReport /\ comparedOn = alerts)

\* C30: once initialize has been started, cleanup has been executed when the
\* process ends, both when scanAll completes and when initialize or scanAll
\* throws.
C30_CleanupBeforeProcessEnds ==
    pc \in {"exited", "ended"} => mainRun.cleanup
=============================================================================
